---- MODULE Spec2Model ----
(***************************************************************************)
(* Verification model of the hierarchical configuration store ("Config")   *)
(* of Red-DiscordBot: redbot/core/config/{value,group,array,config}.py     *)
(* and redbot/core/config/drivers/base.py.                                 *)
(*                                                                         *)
(* Scheduling model: asyncio, one thread.  A task runs without             *)
(* interruption between two awaits; every driver call (get / set) and a    *)
(* lock acquisition that has to wait are suspension points.  One action    *)
(* of the model is the code a task runs from one suspension point to the   *)
(* next.  A cancellation is delivered at the suspension point the task is  *)
(* parked at, and the handlers it runs (finally blocks, asyncio.Lock's     *)
(* own CancelledError handler) are part of the same action.                *)
(*                                                                         *)
(* Config._lock_cache is a WeakValueDictionary: a lock lives as long as    *)
(* somebody keeps a strong reference to it.  The model counts references   *)
(* as CPython does: a lock whose last reference is dropped disappears      *)
(* from the cache within the same action.                                  *)
(***************************************************************************)
EXTENDS Integers, Sequences, FiniteSets, TLC

\* ------------------------------------------------------------------ bounds
NTasks == 2

Tasks == 1..NTasks
LockIds == 1..(NTasks + 1)
NoLock == 0
NoTask == 0

\* The global fields the tasks work on: config.cnt, config.lst, config.grp
Paths == {"cnt", "lst", "grp"}

\* ------------------------------------------------------------ JSON values
\* One record shape for every value, so that any two values can be compared:
\* k is the Python type, n the number (or 0/1 for a bool), l the list,
\* d the dict (a function from keys to values of the same shape).
MkVal(k, n, l, d) == [k |-> k, n |-> n, l |-> l, d |-> d]
Absent == MkVal("absent", 0, <<>>, <<>>)
PyNone == MkVal("none", 0, <<>>, <<>>)
Num(i) == MkVal("num", i, <<>>, <<>>)
Bool(b) == MkVal("bool", IF b THEN 1 ELSE 0, <<>>, <<>>)
List(s) == MkVal("list", 0, s, <<>>)
Dict(f) == MkVal("dict", 0, <<>>, f)
\* a str: l holds its characters, numbered a = 1, b = 2, ...
Str(s) == MkVal("str", 0, s, <<>>)
\* the outcome of an expression that raises instead of returning a value
Raised == MkVal("raised", 0, <<>>, <<>>)

\* Dict keys.  "d1" and "i1" both stand for the int key 1, every other key is a
\* str.  A Python dict iterates in insertion order, and the model's dicts are
\* built in a fixed order: a copy of the registered defaults first, the stored
\* keys (always str) next, the keys a block adds last.  "d1" is the int key 1 at
\* the place of a default, "i1" the int key 1 added by a block; a dict never
\* holds both.
IntKeys == {"d1", "i1"}

\* str(k) of utils.str_key_dict
StrKey(k) == IF k \in IntKeys THEN "1" ELSE k

\* The key of f whose value ret[s] ends with in utils.str_key_dict: when several
\* keys have the same str(), the one iterated last.
LastKeyFor(f, s) ==
    IF s # "1" THEN s
    ELSE IF "i1" \in DOMAIN f THEN "i1"
    ELSE IF "1" \in DOMAIN f THEN "1"
    ELSE "d1"

\* utils.str_key_dict: every key cast to str, recursively in dict values.
RECURSIVE str_key_dict(_)
str_key_dict(f) ==
    [s \in {StrKey(k) : k \in DOMAIN f} |->
        LET v == f[LastKeyFor(f, s)]
        IN  IF v.k = "dict" THEN Dict(str_key_dict(v.d)) ELSE v]

\* ---------------------------------------------------------------- state
VARIABLES
    store,        \* backend: Paths -> value (Absent: driver.get raises KeyError)
    defaults,     \* Config._defaults["GLOBAL"]: Paths -> value (Absent: unregistered)
    custom_groups,\* Config.custom_groups["X"]: the arity, 0 when not initialised
    lockCache,    \* Config._lock_cache: LockKeys -> lock id (NoLock: no entry)
    locks,        \* the asyncio.Lock objects: LockIds -> record
    ref,          \* the lock each task keeps a strong reference to
    pc,           \* where each task is suspended
    kind,         \* the operation each task runs
    path,         \* the field it runs on
    acq,          \* acquire_lock of the task's ValueContextManager
    loc,          \* existing_value / raw_value: the structure the task works on
    orig,         \* ValueContextManager.__original_value
    exc,          \* the exception the task ended with, or the one pending in __aexit__
    sets,         \* number of driver.set calls each task issued
    mod,          \* whether the task's block has edited the yielded structure
    call,         \* the last call of the sequential caller: arguments and outcome
    cats,         \* backend: owner -> category -> the category's document
    dest,         \* the backend a migration copies to, of the same shape
    mig,          \* BaseDriver.migrate_to: where it is, what it exported
    force_registration,  \* Config.force_registration
    at_index      \* the index argument of the task's set_at

vars == <<store, defaults, custom_groups, lockCache, locks, ref, pc, kind, path,
          acq, loc, orig, exc, sets, mod, call, cats, dest, mig, force_registration,
          at_index>>

\* No call made yet.  op: the method called; path: the field, key: the key beneath
\* it the accessor is for ("": the field itself); arg: the value or
\* item passed; index, hasMax (max_length is not None), max_length, left
\* (extend_left): the other arguments; before: what the backend held at path when
\* the call started; ret: the object returned, and for set the caller's object it
\* was passed; e: the exception raised, "none" on return; alias: what ret is the
\* same Python object as ("none": an object of its own); cat, pkey: the category
\* and the primary key of the accessor, for the calls made on other categories
\* than GLOBAL; ids: the identifiers, for the calls that name a nested path.
NoCall ==
    [op |-> "none", path |-> "cnt", key |-> "", arg |-> Absent, index |-> 0, hasMax |-> FALSE,
     max_length |-> 0, left |-> FALSE, before |-> Absent, ret |-> Absent,
     e |-> "none", alias |-> "none", cat |-> "GLOBAL", pkey |-> <<>>, ids |-> <<>>]

\* -------------------------------------------------------- asyncio.Lock
\* locked: Lock._locked.  waiters: Lock._waiters, in arrival order.  woken: the
\* first waiter's future has its result set (release or a cancelled waiter woke
\* it) and the waiter has not run yet.  owner records which task's acquire()
\* set _locked; asyncio keeps no owner, the field only names the holder in the
\* properties.  alive: the object exists (is referenced).
FreeLock == [alive |-> FALSE, path |-> "cnt", locked |-> FALSE, owner |-> NoTask,
             waiters |-> <<>>, woken |-> FALSE]

NewLock(p) == [FreeLock EXCEPT !.alive = TRUE, !.path = p]

\* Lock._wake_up_first: set the result of the first waiter's future, if it is
\* not done yet.
WakeUpFirst(lk) ==
    IF lk.waiters # <<>> /\ ~lk.woken THEN [lk EXCEPT !.woken = TRUE] ELSE lk

\* Lock.release, called on a locked lock.
Release(lk) == WakeUpFirst([lk EXCEPT !.locked = FALSE, !.owner = NoTask])

\* Lock.acquire's fast path: not locked and nobody waiting.
AlwaysCanTake(lk) == TRUE

CanTake(lk) == ~lk.locked /\ lk.waiters = <<>>

Take(lk, t) == [lk EXCEPT !.locked = TRUE, !.owner = t]

Enqueue(lk, t) == [lk EXCEPT !.waiters = Append(@, t)]

SeqRemove(s, x) == SelectSeq(s, LAMBDA y : y # x)

\* The woken first waiter resumes in acquire(): its future is removed and
\* _locked is set.
Resume(lk, t) ==
    [lk EXCEPT !.waiters = Tail(@), !.woken = FALSE, !.locked = TRUE, !.owner = t]

\* CancelledError in a waiter: its future is removed from _waiters (finally) and,
\* if the lock is not locked, the next waiter is woken.
CancelWaiter(lk, t) ==
    LET wasHead == lk.waiters # <<>> /\ Head(lk.waiters) = t
        lk1 == [lk EXCEPT !.waiters = SeqRemove(@, t),
                          !.woken = IF wasHead THEN FALSE ELSE @]
    IN  IF ~lk1.locked THEN WakeUpFirst(lk1) ELSE lk1

\* ------------------------------------------------ Python list operations
Min(a, b) == IF a < b THEN a ELSE b
Max(a, b) == IF a > b THEN a ELSE b

\* s[i:] and s[:j] of a Python list, i and j any integer
SliceFrom(s, i) ==
    LET n == Len(s)
        a == IF i < 0 THEN Max(n + i, 0) ELSE Min(i, n)
    IN  SubSeq(s, a + 1, n)

SliceTo(s, j) ==
    LET n == Len(s)
        b == IF j < 0 THEN Max(n + j, 0) ELSE Min(j, n)
    IN  SubSeq(s, 1, b)

\* list.insert(index, x)
ListInsert(s, index, x) ==
    LET n == Len(s)
        i == IF index < 0 THEN Max(n + index, 0) ELSE Min(index, n)
    IN  SubSeq(s, 1, i) \o <<x>> \o SubSeq(s, i + 1, n)

\* an extend that never truncates
ExtendListUnbounded(existing, items, hasMax, max_length, extend_left) ==
    IF extend_left THEN items \o existing ELSE existing \o items

\* BaseDriver.extend, from the list read to the list written (hasMax: max_length
\* is not None)
ExtendList(existing, items, hasMax, max_length, extend_left) ==
    LET joined == IF extend_left THEN items \o existing ELSE existing \o items
        oversize_by == Len(joined) - max_length
    IN  IF hasMax /\ oversize_by > 0
        THEN IF ~extend_left THEN SliceFrom(joined, oversize_by)
             ELSE SliceTo(joined, max_length)
        ELSE joined

\* an insert that truncates at the front
InsertListDropFirst(existing, index, x, hasMax, max_length) ==
    LET ins == ListInsert(existing, index, x)
    IN  IF hasMax /\ Len(ins) > max_length
        THEN SubSeq(ins, 2, Len(ins))
        ELSE ins

\* BaseDriver.insert, from the list read to the list written
InsertList(existing, index, x, hasMax, max_length) ==
    LET ins == ListInsert(existing, index, x)
    IN  IF hasMax /\ Len(ins) > max_length
        THEN SubSeq(ins, 1, Len(ins) - 1)
        ELSE ins

\* indexing that knows no negative index
IndexOkFromFront(s, index) == 0 <= index /\ index < Len(s)

\* existing_value[index] = x; IndexError outside -n .. n-1
IndexOk(s, index) == -Len(s) <= index /\ index < Len(s)

\* an assignment that counts a negative index from the front
SetAtListNegFromFront(s, index, x) ==
    LET i == IF index < 0 THEN -index - 1 ELSE index
    IN  [s EXCEPT ![i + 1] = x]

SetAtList(s, index, x) ==
    LET i == IF index < 0 THEN Len(s) + index ELSE index
    IN  [s EXCEPT ![i + 1] = x]

\* ------------------------------------------------------ default overlay
\* Value.default: a deep copy of the registered default, None when unregistered
ValueDefault(p) == IF defaults[p] = Absent THEN PyNone ELSE defaults[p]

\* Group.__nested_update below the primary keys (data_contains_pkeys False).
\* cur_data is the content of a stored dict, dflt the value `defaults` is bound
\* to: a dict, or whatever defaults.get(key, {}) of the level above returned.
\*   ret = copy of dflt
\*   for key, value in cur_data.items():
\*       dict value:  ret[key] = nested_update(value, dflt.get(key, {}))
\*       otherwise:   ret[key] = value
\* When dflt is not a dict, the first iteration raises (item assignment on, or
\* .get of, a non-dict); without an iteration the copy of dflt is returned.
RECURSIVE nested_update(_, _)
nested_update(cur_data, dflt) ==
    IF dflt.k # "dict"
    THEN IF DOMAIN cur_data = {} THEN dflt ELSE Raised
    ELSE LET sub == [key \in DOMAIN cur_data |->
                       IF cur_data[key].k = "dict"
                       THEN nested_update(cur_data[key].d,
                                          IF key \in DOMAIN dflt.d THEN dflt.d[key]
                                          ELSE Dict(<<>>))
                       ELSE cur_data[key]]
         IN  IF \E key \in DOMAIN cur_data : sub[key] = Raised
             THEN Raised
             ELSE Dict([key \in DOMAIN dflt.d \cup DOMAIN cur_data |->
                          IF key \in DOMAIN cur_data THEN sub[key] ELSE dflt.d[key]])

\* Group.defaults: {} when nothing is registered
GroupDefaults(p) == IF defaults[p].k = "dict" THEN defaults[p].d ELSE <<>>

\* The class Group.__getitem__ picks for config.<p>: _VALUE_CLASS_MAPPING.
\* Group and Array derive from MutableValue, a name value.py of this tree does
\* not define; they are given what Value defines (__call__, get_lock, set).
AccessorClass(p) ==
    CASE defaults[p].k = "dict" -> "Group"
      [] defaults[p].k = "list" -> "Array"
      [] OTHER -> "Value"

\* Value._get / Group._get: what `await config.<p>()` returns when the backend
\* holds v (Absent: KeyError); Raised when the overlay raises.
ReadValue(p, v) ==
    IF AccessorClass(p) = "Group"
    THEN LET raw == IF v = Absent THEN Dict(GroupDefaults(p)) ELSE v
         IN  IF raw.k = "dict" THEN nested_update(raw.d, Dict(GroupDefaults(p))) ELSE raw
    ELSE IF v = Absent THEN ValueDefault(p) ELSE v

\* a set that hands the caller's value to the driver as it is
StoredAsGiven(v) == v

\* a write-back that leaves out what equals the registered default
StoredWithoutDefaults(v) ==
    IF v.k # "dict" THEN v
    ELSE LET f == str_key_dict(v.d)
             keep == {y \in DOMAIN f :
                        ~(y \in DOMAIN GroupDefaults("grp") /\ f[y] = GroupDefaults("grp")[y])}
         IN  Dict([y \in keep |-> f[y]])

\* Value.set / Array.set / Group.set: the value handed to driver.set
StoredForm(v) == IF v.k = "dict" THEN Dict(str_key_dict(v.d)) ELSE v

\* ------------------------------------------------------ the lock table
\* The accessors locks are taken for: the three global fields, config.grp.a (a
\* field beneath config.grp), and config.member((1, 1)).cnt and
\* config.member((1, 2)).cnt, two scope instances of one category.
LockKeys == Paths \cup {"grp.a", "m1", "m2"}

\* Value.identifier_data of the accessor (cog_name and uuid are those of the one
\* Config)
IdentifierOf(k) ==
    CASE k = "grp.a" -> [category |-> "GLOBAL", primary_key |-> <<>>,
                         identifiers |-> <<"grp", "a">>]
      [] k = "m1" -> [category |-> "MEMBER", primary_key |-> <<"1", "1">>,
                      identifiers |-> <<"cnt">>]
      [] k = "m2" -> [category |-> "MEMBER", primary_key |-> <<"1", "2">>,
                      identifiers |-> <<"cnt">>]
      [] OTHER -> [category |-> "GLOBAL", primary_key |-> <<>>, identifiers |-> <<k>>]

\* an equality that looks at the category and the identifiers only
EqCategoryIdentifiers(a, b) ==
    a.category = b.category /\ a.identifiers = b.identifiers

\* IdentifierData.__eq__ (and __hash__, over the same fields)
IdentifierEq(a, b) ==
    /\ a.category = b.category
    /\ a.primary_key = b.primary_key
    /\ a.identifiers = b.identifiers

\* The entry of _lock_cache an accessor's identifier_data finds: the one of the
\* first accessor whose identifier_data is equal to it
CacheKey(p) ==
    CHOOSE q \in LockKeys : IdentifierEq(IdentifierOf(q), IdentifierOf(p))

Referenced(l, r) == \E t \in Tasks : r[t] = l

\* A lock nobody references any more is freed, and the WeakValueDictionary
\* drops its entry.
Sweep(lks, r) ==
    [l \in LockIds |-> IF lks[l].alive /\ ~Referenced(l, r) THEN FreeLock ELSE lks[l]]

SweepCache(c, r) ==
    [p \in LockKeys |-> IF c[p] # NoLock /\ ~Referenced(c[p], r) THEN NoLock ELSE c[p]]

Commit(lks, c, r) ==
    /\ locks' = Sweep(lks, r)
    /\ lockCache' = SweepCache(c, r)
    /\ ref' = r

\* The id of the lock object asyncio.Lock() creates: the first unused one.
FreshLock ==
    CHOOSE l \in LockIds : ~locks[l].alive /\ \A m \in LockIds : m < l => locks[m].alive

\* Value.get_lock: _lock_cache.setdefault(identifier_data, asyncio.Lock()).  The
\* cache is keyed by the IdentifierData's value (__eq__ / __hash__), which for the
\* global fields of one Config is the field's name.
get_lock_uncached(p) == FreshLock

get_lock(p) ==
    IF lockCache[CacheKey(p)] # NoLock THEN lockCache[CacheKey(p)] ELSE FreshLock

LocksWith(p) ==
    LET l == get_lock(p)
    IN  IF locks[l].alive THEN locks ELSE [locks EXCEPT ![l] = NewLock(p)]

CacheWith(p) == [lockCache EXCEPT ![CacheKey(p)] = get_lock(p)]


\* ------------------------------------------------------------- the tasks
\* dinc / dtoggle / extend / insert / setat: BaseDriver.inc / toggle / extend /
\*          insert / set_at, called with lock=get_lock() (as Array does)
\* ctx:     async with config.<p>(acquire_lock=a) as x: ...
\* all:     async with config.grp.all(acquire_lock=a) as x: ...
\* manual:  async with config.lst.get_lock(): get, append, sleep, set
\* vinc:    await config.cnt.inc(1)
\* read:    await config.grp()
\* misuse:  await config.lst.get_lock().acquire()   (no reference kept)
DerivedKinds == {"dinc", "dtoggle", "extend", "insert", "setat"}
ScopeKinds == {"ctx", "all"}
Kinds == DerivedKinds \cup ScopeKinds \cup {"manual", "vinc"}
Ended == {"done", "failed", "cancelled"}

\* The field each operation is run on: the counter, the list, the group, or
\* (a scope through a Value call) any.
KindPaths(k) ==
    CASE k \in {"dinc", "dtoggle", "vinc"} -> {"cnt"}
      [] k \in {"extend", "insert", "setat", "manual", "misuse"} -> {"lst"}
      [] k \in {"all", "read"} -> {"grp"}
      [] OTHER -> Paths

EndPc(e) == IF e = "none" THEN "done" ELSE IF e = "Cancelled" THEN "cancelled" ELSE "failed"

Registered == \A p \in Paths : defaults[p] # Absent

\* Whether the operation takes the path's lock: `async with lock` in the derived
\* operations and around the manual read-modify-write, lock.acquire() in the
\* misuse, `if self.__acquire_lock is True` in ValueContextManager.__aenter__.
NeverTakesLock(k, a) == FALSE

TakesLock(k, a) ==
    k \in DerivedKinds \/ k \in {"manual", "misuse"} \/ (k \in ScopeKinds /\ a)

\* Whether an exception between the acquisition and the block releases the lock.
\* The derived operations and the manual pattern raise inside `async with lock`.
\* ValueContextManager.__aenter__ acquires outside any try, and Python does not
\* call __aexit__ when __aenter__ raises.
NoReleaseOnEntryFailure(k) == FALSE

ReleasesOnEntryFailure(k) == k \in DerivedKinds \/ k = "manual"

\* Whether `await self` can be evaluated: ValueContextManager.__await__ returns
\* self.coro.__await__().  Value.__call__ passes the coroutine self._get(default);
\* Group.all passes functools.partial(self._get, ...), which has no __await__.
CoroAwaitable(k) == k # "all"

\* The task ends with exception e ("none": it returns); with `release`, it
\* releases the lock it holds first.  Its reference to the lock and its local
\* objects go with it.
Finish(t, e, release) ==
    LET l == ref[t]
        lks == IF release /\ l # NoLock THEN [locks EXCEPT ![l] = Release(@)] ELSE locks
    IN  /\ pc' = [pc EXCEPT ![t] = EndPc(e)]
        /\ exc' = [exc EXCEPT ![t] = e]
        /\ loc' = [loc EXCEPT ![t] = Absent]
        /\ orig' = [orig EXCEPT ![t] = Absent]
        /\ Commit(lks, lockCache, [ref EXCEPT ![t] = NoLock])

\* Right after the lock is acquired (or skipped), up to the first suspension.
\*  misuse: acquire() has returned, the temporary reference to the lock is gone
\*  all:    `await self` raises AttributeError, the scope is never entered
\*  others: driver.get is called (a scope: through `await self`)
AfterAcquire(t, k, lks, c, r) ==
    CASE k = "misuse" ->
           /\ pc' = [pc EXCEPT ![t] = "held"]
           /\ exc' = exc
           /\ Commit(lks, c, [r EXCEPT ![t] = NoLock])
      [] k # "misuse" /\ ~CoroAwaitable(k) ->
           /\ pc' = [pc EXCEPT ![t] = "failed"]
           /\ exc' = [exc EXCEPT ![t] = "AttributeError"]
           /\ Commit(lks, c, [r EXCEPT ![t] = NoLock])
      [] OTHER ->
           /\ pc' = [pc EXCEPT ![t] = "get"]
           /\ exc' = exc
           /\ Commit(lks, c, r)

\* The operation takes the lock get_lock() returns for p, keeps a reference to
\* it, and acquires it if it takes it: at once when it is free, or the task
\* joins the waiters.
Acquire(t, k, p, a) ==
    LET l == get_lock(p)
        lks == LocksWith(p)
        c == CacheWith(p)
        r == [ref EXCEPT ![t] = l]
    IN  IF ~TakesLock(k, a)
        THEN AfterAcquire(t, k, lks, c, r)
        ELSE IF CanTake(lks[l])
        THEN AfterAcquire(t, k, [lks EXCEPT ![l] = Take(@, t)], c, r)
        ELSE /\ pc' = [pc EXCEPT ![t] = "wait"]
             /\ exc' = exc
             /\ Commit([lks EXCEPT ![l] = Enqueue(@, t)], c, r)

\* A task starts operation k on config.<p>.
\*  vinc: Value.inc(1) checks the registered default and calls
\*        driver.inc(identifier_data, value, default=default); BaseDriver.inc's
\*        keyword-only parameter `lock` is not passed: TypeError at the call.
\*  others: the lock comes from get_lock() (Array.extend / insert / set_at pass
\*        lock=self.get_lock(); ValueContextManager.__init__ stores it) and is
\*        acquired if the operation takes it.
Start(t, k, p, a) ==
    /\ pc[t] = "idle"
    /\ \A u \in Tasks : u < t => pc[u] # "idle"
    /\ Registered
    /\ p \in KindPaths(k)
    /\ (k \notin ScopeKinds => a)
    /\ kind' = [kind EXCEPT ![t] = k]
    /\ path' = [path EXCEPT ![t] = p]
    /\ acq' = [acq EXCEPT ![t] = a]
    /\ UNCHANGED <<at_index, force_registration, cats, dest, mig, call, store, defaults, custom_groups, loc, orig, sets, mod>>
    /\ IF k = "vinc"
       THEN /\ pc' = [pc EXCEPT ![t] = "failed"]
            /\ exc' = [exc EXCEPT ![t] =
                         IF ValueDefault(p).k \in {"num", "bool"} THEN "TypeError"
                         ELSE "ValueError"]
            /\ UNCHANGED <<locks, lockCache, ref>>
       ELSE Acquire(t, k, p, a)

\* The first waiter, woken by release(), resumes inside acquire() and goes on.
LockGranted(t) ==
    /\ pc[t] = "wait"
    /\ LET lk == locks[ref[t]]
       IN  /\ lk.waiters # <<>> /\ Head(lk.waiters) = t /\ lk.woken
           /\ AfterAcquire(t, kind[t], [locks EXCEPT ![ref[t]] = Resume(@, t)],
                           lockCache, ref)
    /\ UNCHANGED <<at_index, force_registration, cats, dest, mig, call, store, defaults, custom_groups, kind, path, acq, loc, orig, sets, mod>>

\* What a derived operation of BaseDriver computes between its driver.get and its
\* driver.set: [e |-> exception or "none", v |-> the value to write].  v is what
\* driver.get returned (Absent: KeyError, the default is used).  Task t increments
\* by 1, toggles with default False, appends / inserts at 0 / assigns at its
\* index (0 unless the task chose another) its id.
DerivedStep(k, p, v, t) ==
    LET existing == IF v = Absent THEN (IF k = "dtoggle" THEN Bool(FALSE) ELSE ValueDefault(p))
                    ELSE v
    IN  CASE k = "dinc" ->
               IF v # Absent /\ v.k \notin {"num", "bool"}
               THEN [e |-> "StoredTypeError", v |-> existing]
               ELSE [e |-> "none", v |-> Num(existing.n + 1)]
          [] k = "dtoggle" ->
               IF v # Absent /\ v.k # "bool"
               THEN [e |-> "StoredTypeError", v |-> existing]
               ELSE [e |-> "none", v |-> Bool(existing.n = 0)]
          [] k = "extend" ->
               IF v # Absent /\ v.k # "list"
               THEN [e |-> "StoredTypeError", v |-> existing]
               ELSE [e |-> "none", v |-> List(ExtendList(existing.l, <<t>>, FALSE, 0, FALSE))]
          [] k = "insert" ->
               IF existing.k # "list"
               THEN [e |-> "StoredTypeError", v |-> existing]
               ELSE [e |-> "none", v |-> List(InsertList(existing.l, 0, t, FALSE, 0))]
          [] OTHER ->
               IF existing.k # "list"
               THEN [e |-> "StoredTypeError", v |-> existing]
               ELSE IF ~IndexOk(existing.l, at_index[t])
               THEN [e |-> "IndexError", v |-> existing]
               ELSE [e |-> "none", v |-> List(SetAtList(existing.l, at_index[t], t))]

\* driver.get returns to the task.
\*  derived: type check and computation, then driver.set is called; an exception
\*           leaves `async with lock`, which releases.
\*  manual:  foo = await config.foo(); foo.append(0); await asyncio.sleep()
\*  read:    the overlaid value is the result (kept in loc), or the overlay raises
\*  scope:   __aenter__ checks the type (TypeError otherwise, the lock stays
\*           locked) and snapshots the value; the block starts.
GetReturns(t) ==
    /\ pc[t] = "get"
    /\ LET k == kind[t]
           p == path[t]
           v == store[p]
       IN  CASE k \in DerivedKinds ->
                  LET res == DerivedStep(k, p, v, t)
                  IN  IF res.e = "none"
                      THEN /\ loc' = [loc EXCEPT ![t] = res.v]
                           /\ pc' = [pc EXCEPT ![t] = "set"]
                           /\ sets' = [sets EXCEPT ![t] = @ + 1]
                           /\ UNCHANGED <<exc, locks, lockCache, ref, orig>>
                      ELSE /\ Finish(t, res.e, TRUE)
                           /\ sets' = sets
             [] k = "manual" ->
                  LET foo == ReadValue(p, v)
                  IN  IF foo.k = "list"
                      THEN /\ loc' = [loc EXCEPT ![t] = List(Append(foo.l, t))]
                           /\ pc' = [pc EXCEPT ![t] = "body"]
                           /\ UNCHANGED <<exc, locks, lockCache, ref, orig, sets>>
                      ELSE /\ Finish(t, "AttributeError", TRUE)
                           /\ sets' = sets
             [] k = "read" ->
                  LET res == ReadValue(p, v)
                      e == IF res = Raised THEN "TypeError" ELSE "none"
                  IN  /\ pc' = [pc EXCEPT ![t] = EndPc(e)]
                      /\ exc' = [exc EXCEPT ![t] = e]
                      /\ loc' = [loc EXCEPT ![t] = res]
                      /\ Commit(locks, lockCache, [ref EXCEPT ![t] = NoLock])
                      /\ UNCHANGED <<orig, sets>>
             [] OTHER ->
                  LET raw == ReadValue(p, v)
                  IN  IF raw.k \in {"list", "dict"}
                      THEN /\ loc' = [loc EXCEPT ![t] = raw]
                           /\ orig' = [orig EXCEPT ![t] = raw]
                           /\ pc' = [pc EXCEPT ![t] = "body"]
                           /\ UNCHANGED <<exc, locks, lockCache, ref, sets>>
                      ELSE /\ Finish(t, "TypeError",
                                     acq[t] /\ ReleasesOnEntryFailure(k))
                           /\ sets' = sets
    /\ UNCHANGED <<at_index, force_registration, cats, dest, mig, call, store, defaults, custom_groups, kind, path, acq, mod>>

\* driver.get fails with a backend error (not KeyError), or the task is cancelled
\* while it waits for driver.get: the exception is raised at the await.
GetFails(t, e) ==
    /\ pc[t] = "get"
    /\ Finish(t, e, acq[t] /\ ReleasesOnEntryFailure(kind[t]))
    /\ UNCHANGED <<at_index, force_registration, cats, dest, mig, call, store, defaults, custom_groups, kind, path, acq, sets, mod>>

\* The value a block of task t writes into a dict: never a registered default.
BlockValue(t) == Num(t + 1)

\* The block of a scope edits the yielded structure in place (once): a list gets
\* the task's id appended, a dict gets x[key] = value; key is "b" or the int 1
\* ("i1", which is the key "d1" where the dict has it from the defaults).
BodyMutate(t, key) ==
    /\ pc[t] = "body"
    /\ kind[t] = "ctx"
    /\ ~mod[t]
    /\ loc[t].k = "list" => key = "b"
    /\ mod' = [mod EXCEPT ![t] = TRUE]
    /\ LET x == loc[t]
           at == IF key = "i1" /\ "d1" \in DOMAIN x.d THEN "d1" ELSE key
       IN  loc' = [loc EXCEPT ![t] =
                     IF x.k = "list" THEN List(Append(x.l, t))
                     ELSE Dict([y \in DOMAIN x.d \cup {at} |->
                                  IF y = at THEN BlockValue(t) ELSE x.d[y]])]
    /\ UNCHANGED <<at_index, force_registration, cats, dest, mig, call, store, defaults, custom_groups, lockCache, locks, ref, pc, kind, path,
                   acq, orig, exc, sets>>

\* ValueContextManager.__aexit__ up to its await: whether the structure differs
\* from the snapshot
NeverChanged(raw_value, original_value) == FALSE

Changed(raw_value, original_value) ==
    (IF raw_value.k = "dict" THEN Dict(str_key_dict(raw_value.d)) ELSE raw_value)
        # original_value

\* The block ends, normally (e = "none") or by raising e (a cancellation that
\* arrives while the block is suspended is such an exception).
\*  scope:  __aexit__ runs either way: a changed structure is written back with
\*          Value.set (suspension), otherwise the lock is released at once.
\*  manual: the sleep is over and config.foo.set(foo) is called; an exception
\*          leaves `async with lock`.
BodyEnds(t, e) ==
    /\ pc[t] = "body"
    /\ IF kind[t] = "manual"
       THEN IF e = "none"
            THEN /\ pc' = [pc EXCEPT ![t] = "set"]
                 /\ sets' = [sets EXCEPT ![t] = @ + 1]
                 /\ UNCHANGED <<exc, locks, lockCache, ref, loc, orig>>
            ELSE /\ Finish(t, e, TRUE)
                 /\ sets' = sets
       ELSE IF Changed(loc[t], orig[t])
            THEN /\ pc' = [pc EXCEPT ![t] = "set"]
                 /\ exc' = [exc EXCEPT ![t] = e]
                 /\ sets' = [sets EXCEPT ![t] = @ + 1]
                 /\ UNCHANGED <<locks, lockCache, ref, loc, orig>>
            ELSE /\ Finish(t, e, acq[t])
                 /\ sets' = sets
    /\ UNCHANGED <<at_index, force_registration, cats, dest, mig, call, store, defaults, custom_groups, kind, path, acq, mod>>

\* driver.set returns: the value is stored.  The lock is released (end of
\* `async with lock`, or the finally of __aexit__) and the task ends, with the
\* exception of its block if there was one.
SetReturns(t) ==
    /\ pc[t] = "set"
    /\ store' = [store EXCEPT ![path[t]] = StoredForm(loc[t])]
    /\ Finish(t, exc[t], acq[t])
    /\ UNCHANGED <<at_index, force_registration, cats, dest, mig, call, defaults, custom_groups, kind, path, acq, sets, mod>>

\* driver.set fails with a backend error, or the task is cancelled while it
\* waits for driver.set: nothing is stored, the lock is released.
SetFails(t, e) ==
    /\ pc[t] = "set"
    /\ Finish(t, e, acq[t])
    /\ UNCHANGED <<at_index, force_registration, cats, dest, mig, call, store, defaults, custom_groups, kind, path, acq, sets, mod>>

\* The task is cancelled while it waits for the lock: asyncio.Lock.acquire
\* removes its future from the waiters and, the lock being free, wakes the next.
CancelWait(t) ==
    /\ pc[t] = "wait"
    /\ pc' = [pc EXCEPT ![t] = "cancelled"]
    /\ exc' = [exc EXCEPT ![t] = "Cancelled"]
    /\ Commit([locks EXCEPT ![ref[t]] = CancelWaiter(@, t)], lockCache,
              [ref EXCEPT ![t] = NoLock])
    /\ UNCHANGED <<at_index, force_registration, cats, dest, mig, call, store, defaults, custom_groups, kind, path, acq, loc, orig, sets, mod>>

\* --------------------------------------------------- the category documents
\* The owners (cog name and unique id) the backend may hold data of; the Config
\* of the other sections is the one of owner "A".
Cogs == {"A", "B"}

\* ConfigCategory and the custom category "X".  TEXTCHANNEL, ROLE and USER have
\* one primary key like GUILD and are left out.
Categories == {"GLOBAL", "GUILD", "MEMBER", "X"}

\* No document of any category
EmptyCog == [c \in Categories |-> Absent]

\* A backend that holds nothing
EmptyBackend == [g \in Cogs |-> EmptyCog]

\* No migration started.  todo: the owners aiter_cogs has still to yield; cog: the
\* owner being copied; left: the categories export_data has still to read;
\* exported: the (category, document) pairs import_data has still to write, the
\* first one being written; pending: the primary keys of the first pair not
\* yet written; custom: all_custom_group_data, the declared arity of "X" per
\* owner (0: not declared).
NoMig ==
    [phase |-> "idle", todo |-> {}, cog |-> "A", left |-> <<>>, exported |-> <<>>,
     pending |-> {}, custom |-> [g \in Cogs |-> 0]]

\* ------------------------------------------------------------ the Config
\* The default registered for config.grp: {"a": 1}, or {1: 1} (an int key)
StrGrp == [x \in {"a"} |-> Num(1)]
IntGrp == [x \in {"d1"} |-> Num(1)]

\* register_global(cnt=0, lst=[], grp=g)
RegisteredDefaults(g) ==
    [p \in Paths |-> CASE p = "cnt" -> Num(0)
                       [] p = "lst" -> List(<<>>)
                       [] OTHER -> Dict(g)]

RegisterDefaults(g) ==
    /\ ~Registered
    /\ defaults' = RegisteredDefaults(g)
    /\ UNCHANGED <<at_index, force_registration, cats, dest, mig, call, store, custom_groups, lockCache, locks, ref, pc, kind, path, acq, loc,
                   orig, exc, sets, mod>>

\* Config.init_custom("X", n)
MaxArity == 2

init_custom(n) ==
    /\ custom_groups = 0
    /\ custom_groups' = n
    /\ UNCHANGED <<at_index, force_registration, cats, dest, mig, call, store, defaults, lockCache, locks, ref, pc, kind, path, acq, loc,
                   orig, exc, sets, mod>>

\* Config.get_conf(cog, identifier) for the pair the live instance was made for:
\* Config.__new__ returns the instance of _config_cache, and Python then runs
\* Config.__init__ on it: _defaults = {}, custom_groups = {}, _lock_cache = a new
\* WeakValueDictionary.  The locks themselves live on while tasks reference them.
ReRequest ==
    /\ Registered
    /\ defaults' = [p \in Paths |-> Absent]
    /\ custom_groups' = 0
    /\ lockCache' = [p \in LockKeys |-> NoLock]
    /\ UNCHANGED <<at_index, force_registration, cats, dest, mig, call, store, locks, ref, pc, kind, path, acq, loc, orig, exc, sets, mod>>

\* Config.__init__ on a new instance, no task started, no call made
Fresh ==
    /\ custom_groups = 0
    /\ lockCache = [p \in LockKeys |-> NoLock]
    /\ locks = [l \in LockIds |-> FreeLock]
    /\ ref = [t \in Tasks |-> NoLock]
    /\ pc = [t \in Tasks |-> "idle"]
    /\ kind = [t \in Tasks |-> "ctx"]
    /\ path = [t \in Tasks |-> "cnt"]
    /\ acq = [t \in Tasks |-> TRUE]
    /\ loc = [t \in Tasks |-> Absent]
    /\ orig = [t \in Tasks |-> Absent]
    /\ exc = [t \in Tasks |-> "none"]
    /\ sets = [t \in Tasks |-> 0]
    /\ mod = [t \in Tasks |-> FALSE]
    /\ at_index = [t \in Tasks |-> 0]
    /\ call = NoCall

\* ... the backends are empty and no migration runs
Idle ==
    /\ Fresh
    /\ cats = EmptyBackend
    /\ dest = EmptyBackend
    /\ mig = NoMig

Init ==
    /\ store = [p \in Paths |-> Absent]
    /\ defaults = [p \in Paths |-> Absent]
    /\ force_registration = FALSE
    /\ Idle

Failures == {"BackendError", "Cancelled"}

\* One step of task t, which may start any operation of KS
TaskStep(t, KS) ==
    \/ \E k \in KS, p \in Paths, a \in BOOLEAN : Start(t, k, p, a)
    \/ LockGranted(t)
    \/ GetReturns(t)
    \/ \E e \in Failures : GetFails(t, e)
    \/ \E key \in {"b", "i1"} : BodyMutate(t, key)
    \/ \E e \in {"none", "RuntimeError"} : BodyEnds(t, e)
    \/ SetReturns(t)
    \/ \E e \in Failures : SetFails(t, e)
    \/ CancelWait(t)

\* The store used as documented: str-keyed defaults, every operation.
Next ==
    \/ RegisterDefaults(StrGrp)
    \/ \E t \in Tasks : TaskStep(t, Kinds)

Spec == Init /\ [][Next]_vars

\* Scopes only, over a group default with str keys or with an int key.
NextScopes ==
    \/ \E g \in {StrGrp, IntGrp} : RegisterDefaults(g)
    \/ \E t \in Tasks : TaskStep(t, ScopeKinds)

SpecScopes == Init /\ [][NextScopes]_vars

\* Every operation, plus the acquisition get_lock's docstring warns against.
NextMisuse ==
    \/ RegisterDefaults(StrGrp)
    \/ \E t \in Tasks : TaskStep(t, Kinds \cup {"misuse"})

SpecMisuse == Init /\ [][NextMisuse]_vars

\* The Config is requested again while it is in use.
ReinitKinds == {"ctx", "manual", "extend"}

NextReinit ==
    \/ RegisterDefaults(StrGrp)
    \/ \E n \in 1..MaxArity : init_custom(n)
    \/ ReRequest
    \/ \E t \in Tasks : TaskStep(t, ReinitKinds)

SpecReinit == Init /\ [][NextReinit]_vars

\* Group reads over every default tree D and stored document S of a bounded
\* shape: D has keys among a, n, S among a, e; a value is a number or a dict of
\* numbers (D's over x, y, S's over x, z).  Defaults hold 1, storage holds 2.
SubTrees(keys, leaf) ==
    {leaf} \cup {Dict(f) : f \in UNION {[K -> {leaf}] : K \in SUBSET keys}}

DTrees == UNION {[K -> SubTrees({"x", "y"}, Num(1))] : K \in SUBSET {"a", "n"}}
STrees == UNION {[K -> SubTrees({"x", "z"}, Num(2))] : K \in SUBSET {"a", "e"}}

InitMerge ==
    /\ \E D \in DTrees : defaults = RegisteredDefaults(D)
    /\ \E S \in STrees :
          store = [p \in Paths |-> IF p = "grp" THEN Dict(S) ELSE Absent]
    /\ force_registration = FALSE
    /\ Idle

NextMerge ==
    \E t \in Tasks :
        \/ Start(t, "read", "grp", TRUE)
        \/ GetReturns(t)
        \/ \E e \in Failures : GetFails(t, e)

SpecMerge == InitMerge /\ [][NextMerge]_vars

\* ------------------------------------------------ the sequential caller
\* One caller awaits one call after the other, as the tests of test_config.py
\* do.  The call and its outcome are kept in `call`.

\* The default registered for config.grp when it is the empty dict
EmptyGrp == [x \in {} |-> Num(1)]

\* The dicts the caller passes to set: keys among "a", "b" and the int 1 with
\* values 2 or {1: 3}, and {"1": 2, 1: 3}, whose keys have the same str()
SetLeaves == {Num(2), Dict([x \in {"i1"} |-> Num(3)])}

SetDicts ==
    {Dict(f) : f \in UNION {[K -> SetLeaves] : K \in SUBSET {"a", "b", "i1"}}}
        \cup {Dict([x \in {"1", "i1"} |-> IF x = "1" THEN Num(2) ELSE Num(3)])}

\* The values the caller passes to config.<p>.set
SetValues(p) ==
    {PyNone} \cup
    CASE p = "cnt" -> {Num(1), Bool(TRUE), Str(<<1>>)}
      [] p = "lst" -> {List(<<>>), List(<<1>>), List(<<1, 2>>)}
      [] OTHER -> SetDicts

\* Array.set and Group.set raise TypeError unless the value is a list / a dict
SetAccepted(p, v) ==
    CASE AccessorClass(p) = "Group" -> v.k = "dict"
      [] AccessorClass(p) = "Array" -> v.k = "list"
      [] OTHER -> TRUE

\* What the object a get returns is the same object as, if any.  A get that
\* returns the very object the backend keeps, or the registered default itself:
SharedObjectOfGet(p) == IF store[p] = Absent THEN "defaults" ELSE "store"

\* PostgresDriver.get returns json.loads(result), a new object on every call, and
\* Value.default walks Config.defaults, a pickle copy of Config._defaults.
ObjectOfGet(p) == "none"

\* PostgresDriver.set sends json.dumps(value): the backend keeps no reference to
\* the caller's object.
ObjectOfSet(p) == "none"

\* a set that is only issued while nobody holds the lock of its path
ValueSetWhenUnlocked(p, v) ==
    /\ lockCache[p] # NoLock => ~locks[lockCache[p]].locked
    /\ call' = [NoCall EXCEPT !.op = "set", !.path = p, !.arg = v, !.ret = v]
    /\ store' = [store EXCEPT ![p] = StoredForm(v)]
    /\ UNCHANGED <<at_index, force_registration, cats, dest, mig, defaults, custom_groups, lockCache,
                   locks, ref, pc, kind, path, acq, loc, orig, exc, sets, mod>>

\* await config.<p>.set(v)
ValueSet(p, v) ==
    /\ call' = [NoCall EXCEPT !.op = "set", !.path = p, !.arg = v, !.ret = v,
                              !.e = IF SetAccepted(p, v) THEN "none" ELSE "TypeError",
                              !.alias = ObjectOfSet(p)]
    /\ store' = IF SetAccepted(p, v) THEN [store EXCEPT ![p] = StoredForm(v)] ELSE store
    /\ UNCHANGED <<at_index, force_registration, cats, dest, mig, defaults, custom_groups, lockCache, locks, ref, pc, kind, path, acq,
                   loc, orig, exc, sets, mod>>

\* await config.<p>().  arg keeps the value of the set this get directly follows
\* on the same path (Absent when it follows none).
ValueGet(p) ==
    /\ LET res == ReadValue(p, store[p])
       IN  call' = [NoCall EXCEPT
                      !.op = "get", !.path = p, !.ret = res,
                      !.arg = IF call.op = "set" /\ call.path = p /\ call.e = "none"
                              THEN call.arg ELSE Absent,
                      !.e = IF res = Raised THEN "TypeError" ELSE "none",
                      !.alias = ObjectOfGet(p)]
    /\ UNCHANGED <<at_index, force_registration, cats, dest, mig, store, defaults, custom_groups, lockCache, locks, ref, pc, kind, path,
                   acq, loc, orig, exc, sets, mod>>

\* The caller's edit of a list or dict it holds: append 9, or add the key "m"
Mutated(v) ==
    IF v.k = "list" THEN List(Append(v.l, 9))
    ELSE Dict([k \in DOMAIN v.d \cup {"m"} |-> IF k = "m" THEN Num(9) ELSE v.d[k]])

\* The caller mutates the object the last get returned or the last set was
\* passed.  An object shared with the backend or with the default tree
\* changes there too.
CallerMutates ==
    /\ call.op \in {"get", "set"}
    /\ call.e = "none"
    /\ call.ret.k \in {"list", "dict"}
    /\ call' = [call EXCEPT !.op = "mutate", !.ret = Mutated(@)]
    /\ store' = IF call.alias = "store"
                THEN [store EXCEPT ![call.path] = Mutated(call.ret)] ELSE store
    /\ defaults' = IF call.alias = "defaults"
                   THEN [defaults EXCEPT ![call.path] = Mutated(call.ret)] ELSE defaults
    /\ UNCHANGED <<at_index, force_registration, cats, dest, mig, custom_groups, lockCache, locks, ref, pc, kind, path, acq, loc, orig,
                   exc, sets, mod>>

\* --- clear.  Value.clear hands its identifiers to driver.clear, which base.py
\* declares abstract ("Equivalent to using del on a dict"); no backend of src/
\* implements it in Python.  The backend is a tree of documents: the document of
\* config.grp holds the documents of its keys.
ChildKeys == {"a", "b"}

\* The identifiers of config.<p> and of config.grp.<k>
PathKeys == {<<p>> : p \in Paths} \cup {<<"grp", k>> : k \in ChildKeys}

\* Q lies beneath P
Beneath(Q, P) == Len(Q) > Len(P) /\ SubSeq(Q, 1, Len(P)) = P

\* driver.get: the document stored at P in S (Absent: KeyError)
StoredAt(S, P) ==
    IF Len(P) = 1 THEN S[P[1]]
    ELSE IF S[P[1]].k = "dict" /\ P[2] \in DOMAIN S[P[1]].d THEN S[P[1]].d[P[2]]
    ELSE Absent

\* a clear that drops every document of the category
ClearCategory(S, P) == [p \in Paths |-> Absent]

\* driver.clear: del of the entry at P, silently nothing when there is none
ClearAt(S, P) ==
    IF Len(P) = 1 THEN [S EXCEPT ![P[1]] = Absent]
    ELSE IF StoredAt(S, P) = Absent THEN S
    ELSE [S EXCEPT ![P[1]] = Dict([k \in DOMAIN S[P[1]].d \ {P[2]} |-> S[P[1]].d[k]])]

\* Value.default at P
DefaultAt(P) ==
    IF Len(P) = 1 THEN ValueDefault(P[1])
    ELSE IF P[2] \in DOMAIN GroupDefaults(P[1]) THEN GroupDefaults(P[1])[P[2]]
    ELSE PyNone

\* await config.<p>() / await config.grp.<k>() when the backend holds S
ReadAt(S, P) ==
    IF Len(P) = 1 THEN ReadValue(P[1], S[P[1]])
    ELSE IF StoredAt(S, P) = Absent THEN DefaultAt(P) ELSE StoredAt(S, P)

\* await config.<p>.clear() / await config.grp.<k>.clear()
ValueClear(P) ==
    /\ call' = [NoCall EXCEPT !.op = "clear", !.path = P[1],
                              !.key = IF Len(P) = 2 THEN P[2] ELSE "",
                              !.before = StoredAt(store, P)]
    /\ store' = ClearAt(store, P)
    /\ UNCHANGED <<at_index, force_registration, cats, dest, mig, defaults, custom_groups, lockCache, locks, ref, pc, kind, path, acq,
                   loc, orig, exc, sets, mod>>

\* The caller's calls on values, groups and arrays
NextCaller ==
    \/ \E g \in {StrGrp, EmptyGrp} : RegisterDefaults(g)
    \/ \E p \in Paths : \E v \in SetValues(p) : ValueSet(p, v)
    \/ \E p \in Paths : ValueGet(p)
    \/ CallerMutates
    \/ \E P \in PathKeys : ValueClear(P)

SpecCaller == Init /\ [][NextCaller]_vars

\* ------------------------------------------- the driver's derived calls
\* BaseDriver's operations on whatever document the backend holds, called one
\* after the other on config.lst (an Array), config.cnt and config.grp.
MaxLen == 2
MaxIndex == 3

Elems == {1, 2}
Lists(n) == UNION {[1..k -> Elems] : k \in 0..n}

\* The documents the backend may hold: null, booleans, a number, the str "ab",
\* dicts, and the lists of 1s and 2s up to MaxLen elements
StoredValues ==
    {PyNone, Bool(TRUE), Bool(FALSE), Num(1), Str(<<1, 2>>), Dict(StrGrp),
     Dict([x \in {"1"} |-> Num(1)])} \cup {List(s) : s \in Lists(MaxLen)}

\* The items looked for: 1, 2, "a", "b", "c"
Items == {Num(1), Num(2), Str(<<1>>), Str(<<2>>), Str(<<3>>)}

\* x == item for a list element x (an int): Python compares True == 1, 0 == False
ElemEq(x, item) == item.k \in {"num", "bool"} /\ item.n = x

\* list.index(item): the first position, -1 standing for ValueError
ListIndexOf(s, item) ==
    LET hits == {i \in 1..Len(s) : ElemEq(s[i], item)}
    IN  IF hits = {} THEN -1 ELSE (CHOOSE i \in hits : \A j \in hits : i <= j) - 1

\* str.index(sub) for a str sub: the first position, -1 standing for ValueError
StrIndexOf(s, sub) ==
    LET hits == {i \in 0..(Len(s) - Len(sub)) : SubSeq(s, i + 1, i + Len(sub)) = sub}
    IN  IF hits = {} THEN -1 ELSE CHOOSE i \in hits : \A j \in hits : i <= j

\* a list that holds nothing
NothingInList(s, item) == FALSE

\* item in value, for a list
InList(s, item) == \E i \in 1..Len(s) : ElemEq(s[i], item)

\* str(item) of Group.contains, as a key of the model's dicts
PyStr(item) ==
    IF item.k = "num" THEN (IF item.n = 1 THEN "1" ELSE "2")
    ELSE CASE item.l = <<1>> -> "a" [] item.l = <<2>> -> "b" [] OTHER -> "c"

\* value[index] of a list, index within -n .. n-1
ElemAt(s, index) == s[(IF index < 0 THEN Len(s) + index ELSE index) + 1]

\* The outcome of a call: exception, value returned, document the backend holds
\* afterwards
Outcome(e, ret, stored) == [e |-> e, ret |-> ret, stored |-> stored]

\* BaseDriver.extend as Array.extend calls it (default = the Array's default)
DriverExtend(v, dflt, items, hasMax, max_length, extend_left) ==
    IF v # Absent /\ v.k # "list" THEN Outcome("StoredTypeError", Absent, v)
    ELSE LET existing == IF v = Absent THEN dflt ELSE v
             new == List(ExtendList(existing.l, items, hasMax, max_length, extend_left))
         IN  Outcome("none", new, new)

\* BaseDriver.insert as Array.insert calls it
DriverInsert(v, dflt, index, x, hasMax, max_length) ==
    LET existing == IF v = Absent THEN dflt ELSE v
    IN  IF existing.k # "list" THEN Outcome("StoredTypeError", Absent, v)
        ELSE LET new == List(InsertList(existing.l, index, x, hasMax, max_length))
             IN  Outcome("none", new, new)

\* BaseDriver.index: existing_value.index(value), StoredTypeError on
\* AttributeError.  A list and a str have an index method.
DriverIndex(v, item) ==
    CASE v = Absent -> Outcome("KeyError", Absent, v)
      [] v.k = "list" ->
            IF ListIndexOf(v.l, item) = -1 THEN Outcome("ValueError", Absent, v)
            ELSE Outcome("none", Num(ListIndexOf(v.l, item)), v)
      [] v.k = "str" ->
            IF item.k # "str" THEN Outcome("TypeError", Absent, v)
            ELSE IF StrIndexOf(v.l, item.l) = -1 THEN Outcome("ValueError", Absent, v)
            ELSE Outcome("none", Num(StrIndexOf(v.l, item.l)), v)
      [] OTHER -> Outcome("StoredTypeError", Absent, v)

\* BaseDriver.at
DriverAt(v, index) ==
    CASE v = Absent -> Outcome("KeyError", Absent, v)
      [] v.k # "list" -> Outcome("StoredTypeError", Absent, v)
      [] ~IndexOk(v.l, index) -> Outcome("IndexError", Absent, v)
      [] OTHER -> Outcome("none", Num(ElemAt(v.l, index)), v)

\* BaseDriver.array_contains
DriverArrayContains(v, item) ==
    CASE v = Absent -> Outcome("KeyError", Absent, v)
      [] v.k # "list" -> Outcome("StoredTypeError", Absent, v)
      [] OTHER -> Outcome("none", Bool(InList(v.l, item)), v)

\* BaseDriver.object_contains as Group.contains calls it: item is str(item)
DriverObjectContains(v, item) ==
    CASE v = Absent -> Outcome("KeyError", Absent, v)
      [] v.k # "dict" -> Outcome("StoredTypeError", Absent, v)
      [] OTHER -> Outcome("none", Bool(PyStr(item) \in DOMAIN v.d), v)

\* BaseDriver.inc(value=1, default=0) and BaseDriver.toggle(default=False), called
\* with a lock
DriverIncToggle(k, p, v) ==
    LET res == DerivedStep(k, p, v, 1)
    IN  IF res.e = "none" THEN Outcome("none", res.v, res.v)
        ELSE Outcome(res.e, Absent, v)

\* The one call of a run, on path p, with outcome out; c holds the arguments
DriverCall(p, c, out) ==
    /\ call.op = "none"
    /\ call' = [c EXCEPT !.path = p, !.before = store[p], !.ret = out.ret, !.e = out.e]
    /\ store' = [store EXCEPT ![p] = out.stored]
    /\ UNCHANGED <<at_index, force_registration, cats, dest, mig, defaults, custom_groups, lockCache, locks, ref, pc, kind, path, acq,
                   loc, orig, exc, sets, mod>>

\* await config.lst.extend(items, max_length=..., extend_left=...)
ArrayExtend(items, hasMax, max_length, extend_left) ==
    LET out == DriverExtend(store["lst"], ValueDefault("lst"), items, hasMax,
                            max_length, extend_left)
    IN  DriverCall("lst", [NoCall EXCEPT !.op = "extend", !.arg = List(items),
                                         !.hasMax = hasMax, !.max_length = max_length,
                                         !.left = extend_left], out)

\* await config.lst.insert(index, 5, max_length=...)
ArrayInsert(index, hasMax, max_length) ==
    LET out == DriverInsert(store["lst"], ValueDefault("lst"), index, 5, hasMax,
                            max_length)
    IN  DriverCall("lst", [NoCall EXCEPT !.op = "insert", !.arg = Num(5),
                                         !.index = index, !.hasMax = hasMax,
                                         !.max_length = max_length], out)

\* await driver.index(config.lst.identifier_data, item)
IndexOf(item) ==
    DriverCall("lst", [NoCall EXCEPT !.op = "index", !.arg = item],
               DriverIndex(store["lst"], item))

\* await driver.at(config.lst.identifier_data, index)
At(index) ==
    DriverCall("lst", [NoCall EXCEPT !.op = "at", !.index = index],
               DriverAt(store["lst"], index))

\* await config.lst.contains(item)
ArrayContains(item) ==
    DriverCall("lst", [NoCall EXCEPT !.op = "array_contains", !.arg = item],
               DriverArrayContains(store["lst"], item))

\* await config.grp.contains(item)
GroupContains(item) ==
    DriverCall("grp", [NoCall EXCEPT !.op = "object_contains", !.arg = item],
               DriverObjectContains(store["grp"], item))

\* await driver.inc(config.cnt.identifier_data, 1, 0, lock=...) and
\* await driver.toggle(config.cnt.identifier_data, False, lock=...)
IncToggle(k) ==
    DriverCall("cnt", [NoCall EXCEPT !.op = k], DriverIncToggle(k, "cnt", store["cnt"]))

\* The defaults of register_global(cnt=0, lst=[], grp={"a": 1}) and any document
\* at one of the three fields
InitDriver ==
    /\ defaults = RegisteredDefaults(StrGrp)
    /\ \E p \in Paths, V \in StoredValues :
          store = [q \in Paths |-> IF q = p THEN V ELSE Absent]
    /\ force_registration = FALSE
    /\ Idle

NextDriver ==
    \/ \E items \in {<<>>, <<3>>, <<3, 4>>}, hasMax \in BOOLEAN, m \in 0..MaxIndex,
          left \in BOOLEAN : ArrayExtend(items, hasMax, m, left)
    \/ \E index \in (-MaxIndex)..MaxIndex, hasMax \in BOOLEAN, m \in 0..MaxIndex :
          ArrayInsert(index, hasMax, m)
    \/ \E item \in Items : IndexOf(item)
    \/ \E index \in (-MaxIndex)..MaxIndex : At(index)
    \/ \E item \in Items : ArrayContains(item)
    \/ \E item \in Items : GroupContains(item)
    \/ \E k \in {"dinc", "dtoggle"} : IncToggle(k)

SpecDriver == InitDriver /\ [][NextDriver]_vars

\* ------------------------------------------------------ custom groups
\* a second init_custom that replaces the recorded arity
init_custom_overwrites(n) ==
    /\ custom_groups # 0
    /\ custom_groups' = n
    /\ call' = [NoCall EXCEPT !.op = "init_custom", !.index = n]
    /\ UNCHANGED <<at_index, force_registration, cats, dest, mig, store, defaults, lockCache, locks, ref, pc, kind, path, acq, loc,
                   orig, exc, sets, mod>>

\* Config.init_custom("X", n) when "X" is in custom_groups: ValueError, nothing
\* recorded
init_custom_raises(n) ==
    /\ custom_groups # 0
    /\ call' = [NoCall EXCEPT !.op = "init_custom", !.index = n, !.e = "ValueError"]
    /\ UNCHANGED <<at_index, force_registration, cats, dest, mig, store, defaults, custom_groups, lockCache, locks, ref, pc, kind, path,
                   acq, loc, orig, exc, sets, mod>>

\* Config.custom("X", *identifiers) with m identifiers: ValueError unless "X" is in
\* custom_groups, else the base group of the category
custom(m) ==
    /\ call' = [NoCall EXCEPT !.op = "custom", !.index = m,
                              !.e = IF custom_groups = 0 THEN "ValueError" ELSE "none"]
    /\ UNCHANGED <<at_index, force_registration, cats, dest, mig, store, defaults, custom_groups, lockCache, locks, ref, pc, kind, path,
                   acq, loc, orig, exc, sets, mod>>

\* Registration attempts and custom() between the caller's sets and gets of
\* config.cnt
NextCustom ==
    \/ RegisterDefaults(StrGrp)
    \/ \E n \in 1..MaxArity : init_custom(n)
    \/ \E n \in 1..MaxArity : init_custom_raises(n)
    \/ \E m \in 0..MaxArity : custom(m)
    \/ \E v \in SetValues("cnt") : ValueSet("cnt", v)
    \/ ValueGet("cnt")

SpecCustom == Init /\ [][NextCustom]_vars

\* ------------------------------------------------ the documents as trees
\* BaseDriver.get, set and clear are abstract, and the backend of src/ runs them
\* as SQL functions that are not part of the tree.  They are modelled by their
\* contract: the document of a category is a dict, addressed by the primary
\* key followed by the identifiers; get is nested item access, set is nested
\* item assignment that creates the dicts on the way, clear is del.
With(f, key, x) == [k \in DOMAIN f \cup {key} |-> IF k = key THEN x ELSE f[k]]
Without(f, key) == [k \in DOMAIN f \ {key} |-> f[k]]

\* the value at P inside v (Absent: KeyError)
RECURSIVE GetIn(_, _)
GetIn(v, P) ==
    IF P = <<>> THEN v
    ELSE IF v.k = "dict" /\ Head(P) \in DOMAIN v.d THEN GetIn(v.d[Head(P)], Tail(P))
    ELSE Absent

\* v with x at P (Raised: CannotSetSubfield, a value on the way is no dict)
RECURSIVE SetIn(_, _, _)
SetIn(v, P, x) ==
    IF P = <<>> THEN x
    ELSE IF v = Absent THEN Dict(With(<<>>, Head(P), SetIn(Absent, Tail(P), x)))
    ELSE IF v.k # "dict" THEN Raised
    ELSE LET sub == SetIn(IF Head(P) \in DOMAIN v.d THEN v.d[Head(P)] ELSE Absent,
                          Tail(P), x)
         IN  IF sub = Raised THEN Raised ELSE Dict(With(v.d, Head(P), sub))

\* v without the entry at P; v itself when there is none
RECURSIVE ClearIn(_, _)
ClearIn(v, P) ==
    IF P = <<>> THEN Absent
    ELSE IF v.k # "dict" THEN v
    ELSE IF Head(P) \notin DOMAIN v.d THEN v
    ELSE IF Len(P) = 1 THEN Dict(Without(v.d, Head(P)))
    ELSE Dict(With(v.d, Head(P), ClearIn(v.d[Head(P)], Tail(P))))

\* driver.get(IdentifierData(g, category c, primary key and identifiers P))
DriverGet(B, g, c, P) == GetIn(B[g][c], P)

\* driver.set: the backend afterwards (B itself when the set raises)
DriverSet(B, g, c, P, x) ==
    IF SetIn(B[g][c], P, x) = Raised THEN B ELSE [B EXCEPT ![g][c] = SetIn(@, P, x)]

\* a clear that drops every document of the owner
DriverClearOwner(B, g, c, P) == [B EXCEPT ![g] = EmptyCog]

\* driver.clear: the backend afterwards
DriverClear(B, g, c, P) == [B EXCEPT ![g][c] = ClearIn(@, P)]

\* ------------------------------------------- the category-level accessors
\* The ids of guilds and users
Ids == {"1", "2"}

\* ConfigCategory.get_pkey_info: the number of primary keys of a category,
\* n being the registered arity of the custom category
PkeyLen(c, n) ==
    CASE c = "GLOBAL" -> 0
      [] c = "GUILD" -> 1
      [] c = "MEMBER" -> 2
      [] OTHER -> n

\* The primary keys of the scope instances of a category; those of the custom
\* category repeat one id
Instances(c, n) ==
    IF c = "X" THEN {[i \in 1..n |-> d] : d \in Ids} ELSE [1..PkeyLen(c, n) -> Ids]

\* The categories config gives accessors for: "X" after init_custom
Usable(c) == c # "X" \/ custom_groups > 0

\* await config.guild(1).foo.set(True), config.member((1, 2)).foo.set(True),
\* config.custom("X", ...).foo.set(True), config.foo.set(True): Group.__getitem__
\* appends "foo" to the identifiers, Value.set calls driver.set
InstanceSet(c, pk) ==
    /\ Usable(c)
    /\ call' = [NoCall EXCEPT !.op = "set", !.cat = c, !.pkey = pk]
    /\ cats' = DriverSet(cats, "A", c, pk \o <<"foo">>, Bool(TRUE))
    /\ UNCHANGED <<at_index, force_registration, dest, mig, store, defaults, custom_groups, lockCache, locks, ref, pc,
                   kind, path, acq, loc, orig, exc, sets, mod>>

\* await config.guild(1).clear() and the like: Value.clear on the accessor of
\* one scope instance
InstanceClear(c, pk) ==
    /\ Usable(c)
    /\ call' = [NoCall EXCEPT !.op = "clear", !.cat = c, !.pkey = pk]
    /\ cats' = DriverClear(cats, "A", c, pk)
    /\ UNCHANGED <<at_index, force_registration, dest, mig, store, defaults, custom_groups, lockCache, locks, ref, pc,
                   kind, path, acq, loc, orig, exc, sets, mod>>

\* await config.guild.clear(), config.member.clear(), config.custom("X").clear(),
\* config.clear(): Value.clear on the accessor _get_base_group and the
\* model_group descriptor build, whose primary key and identifiers are empty
CategoryClear(c) ==
    /\ Usable(c)
    /\ call' = [NoCall EXCEPT !.op = "clear", !.cat = c, !.pkey = <<>>,
                              !.before = DriverGet(cats, "A", c, <<>>)]
    /\ cats' = DriverClear(cats, "A", c, <<>>)
    /\ UNCHANGED <<at_index, force_registration, dest, mig, store, defaults, custom_groups, lockCache, locks, ref, pc,
                   kind, path, acq, loc, orig, exc, sets, mod>>

\* Group.__nested_update from level cur_level of the primary keys on: the levels
\* of the primary keys take no defaults
RECURSIVE nested_update_pkeys(_, _, _, _)
nested_update_pkeys(cur_data, dflt, cur_level, pkey_len) ==
    IF cur_level >= pkey_len THEN nested_update(cur_data, dflt)
    ELSE IF \E key \in DOMAIN cur_data : cur_data[key].k # "dict" THEN Raised
    ELSE LET sub == [key \in DOMAIN cur_data |->
                       nested_update_pkeys(cur_data[key].d, dflt, cur_level + 1, pkey_len)]
         IN  IF \E key \in DOMAIN cur_data : sub[key] = Raised THEN Raised ELSE Dict(sub)

\* await config.guild.get_raw(default={}) and the like: the whole category
\* without the registered defaults, when the backend is B
CategoryGetRaw(B, c) ==
    LET raw == DriverGet(B, "A", c, <<>>)
    IN  IF raw = Absent THEN Dict(<<>>)
        ELSE nested_update_pkeys(raw.d, Dict(<<>>), 0, PkeyLen(c, custom_groups))

\* The calls on categories and scope instances
NextCategory ==
    \/ \E n \in 1..MaxArity : init_custom(n)
    \/ \E c \in Categories : \E pk \in Instances(c, custom_groups) : InstanceSet(c, pk)
    \/ \E c \in Categories : \E pk \in Instances(c, custom_groups) : InstanceClear(c, pk)
    \/ \E c \in Categories : CategoryClear(c)

SpecCategory == Init /\ [][NextCategory]_vars

\* ------------------------------------------------- registering defaults
\* The order in which the keys of a dict of defaults are visited: the dicts are
\* taken to be written with their keys in this order
KeyOrder == <<"a", "b", "cnt", "grp", "lst", "x", "y">>

\* an update that writes every new default over the registered one
RECURSIVE update_defaults_overwrite(_, _, _)
update_defaults_overwrite(to_add, partial, i) ==
    IF i > Len(KeyOrder) THEN [d |-> partial, ok |-> TRUE]
    ELSE IF KeyOrder[i] \notin DOMAIN to_add THEN update_defaults_overwrite(to_add, partial, i + 1)
    ELSE update_defaults_overwrite(to_add, With(partial, KeyOrder[i], to_add[KeyOrder[i]]), i + 1)

\* Config._update_defaults(to_add, _partial) from the i-th key on: d is _partial
\* as the call leaves it, ok is FALSE when it raised KeyError ("You cannot
\* register a Group and a Value under the same name").  _partial is updated in
\* place, so what was merged before the raise stays merged.
RECURSIVE update_defaults(_, _, _)
update_defaults(to_add, partial, i) ==
    IF i > Len(KeyOrder) THEN [d |-> partial, ok |-> TRUE]
    ELSE LET k == KeyOrder[i]
         IN  IF k \notin DOMAIN to_add THEN update_defaults(to_add, partial, i + 1)
             ELSE IF k \notin DOMAIN partial
             THEN update_defaults(to_add, With(partial, k, to_add[k]), i + 1)
             ELSE IF (to_add[k].k = "dict") # (partial[k].k = "dict")
             THEN [d |-> partial, ok |-> FALSE]
             ELSE IF to_add[k].k = "dict"
             THEN LET r == update_defaults(to_add[k].d, partial[k].d, 1)
                  IN  IF r.ok THEN update_defaults(to_add, With(partial, k, Dict(r.d)), i + 1)
                      ELSE [d |-> With(partial, k, Dict(r.d)), ok |-> FALSE]
             ELSE update_defaults(to_add, With(partial, k, to_add[k]), i + 1)

\* The defaults a test registers under one name: scalars, a list, dicts
RegLeaf(n) == [x \in {"x"} |-> Num(n)]
RegValues ==
    {Num(0), Num(1), List(<<>>), Dict(<<>>),
     Dict([k \in {"a"} |-> Num(1)]), Dict([k \in {"a"} |-> Num(2)]),
     Dict([k \in {"a"} |-> Dict(RegLeaf(1))]),
     Dict([k \in {"a"} |-> Dict([x \in {"y"} |-> Num(2)])]),
     Dict([k \in {"b"} |-> Num(2)]),
     Dict([k \in {"a", "b"} |-> IF k = "a" THEN Num(2) ELSE Dict(RegLeaf(1))]),
     Dict([k \in {"a", "b"} |-> IF k = "a" THEN Num(3) ELSE Num(3)])}

\* config.register_global(**{p: v}): Config._register_default copies the keyword
\* arguments, _get_defaults_dict turns the name into {p: v} (no "__" in it) and
\* _update_defaults merges that into _defaults["GLOBAL"]
Register(p, v) ==
    LET part == [q \in {q \in Paths : defaults[q] # Absent} |-> defaults[q]]
        r == update_defaults([x \in {p} |-> v], part, 1)
    IN  /\ defaults' = [q \in Paths |-> IF q \in DOMAIN r.d THEN r.d[q] ELSE Absent]
        /\ call' = [NoCall EXCEPT !.op = "register", !.path = p, !.arg = v,
                                  !.before = defaults[p],
                                  !.e = IF r.ok THEN "none" ELSE "KeyError"]
        /\ UNCHANGED <<at_index, force_registration, cats, dest, mig, store, custom_groups, lockCache, locks, ref, pc, kind,
                       path, acq, loc, orig, exc, sets, mod>>

NextRegister == \E p \in {"cnt", "grp"} : \E v \in RegValues : Register(p, v)

SpecRegister == Init /\ [][NextRegister]_vars

\* --------------------------------------------------- navigation and reads
\* The registered defaults of the category, and the stored document, as dicts
DefaultsTree == Dict([q \in {q \in Paths : defaults[q] # Absent} |-> defaults[q]])
StoreTree(S) == Dict([q \in {q \in Paths : S[q] # Absent} |-> S[q]])

\* for key in identifiers: inner = inner[key], as Value.default,
\* Group.__get_default_type and Group.get_raw write it: Absent when a dict lacks
\* the key (KeyError), Raised when a value that is no dict is subscripted with
\* the key (TypeError: an int, a bool and None are not subscriptable, a list
\* and a str take integer indices only)
RECURSIVE Walk(_, _)
Walk(v, P) ==
    IF P = <<>> THEN v
    ELSE IF v.k # "dict" THEN Raised
    ELSE IF Head(P) \in DOMAIN v.d THEN Walk(v.d[Head(P)], Tail(P))
    ELSE Absent

\* _VALUE_CLASS_MAPPING[type(inner)]
ClassOf(v) ==
    CASE v.k = "dict" -> "Group"
      [] v.k = "list" -> "Array"
      [] OTHER -> "Value"

\* Group.__getitem__ on a Group whose identifiers are `at`, with the keys
\* `item`: the class of the accessor returned, or the exception raised
GetItem(at, item) ==
    LET inner == Walk(DefaultsTree, at \o item)
    IN  IF inner = Raised THEN "TypeError"
        ELSE IF inner = Absent /\ force_registration THEN "AttributeError"
        ELSE IF inner = Absent THEN "Value"
        ELSE ClassOf(inner)

\* config.<P[1]> for one name, config.<P[1]>[P[2], ...] for more: Config.__getattr__
\* asks the global Group for P[1]; the accessor returned is subscripted with the
\* other names, which a Value cannot be
Navigate(P) ==
    LET first == GetItem(<<>>, <<P[1]>>)
    IN  IF Len(P) = 1 \/ first \in {"TypeError", "AttributeError"} THEN first
        ELSE IF first = "Value" THEN "TypeError"
        ELSE GetItem(<<P[1]>>, Tail(P))

\* The paths the caller names, and the default it passes when it passes one
NavPaths ==
    {<<"cnt">>, <<"lst">>, <<"grp">>, <<"grp", "a">>, <<"grp", "b">>, <<"grp", "a", "x">>}
OverrideDefault == Num(7)

\* Value.default at P
DefaultOf(P) == IF Walk(DefaultsTree, P) = Absent THEN PyNone ELSE Walk(DefaultsTree, P)

\* Group._get at P with `default`
GroupGet(P, default) ==
    LET stored == GetIn(StoreTree(store), P)
        raw == IF stored = Absent THEN default ELSE stored
    IN  IF raw.k = "dict" THEN nested_update(raw.d, default) ELSE raw

\* await config.<P>() or await config.<P>(OverrideDefault): Value.__call__ hands
\* the coroutine of _get to the ValueContextManager, which the caller awaits
ValueCall(P, hasDefault) ==
    LET nav == Navigate(P)
        stored == GetIn(StoreTree(store), P)
        ret == IF nav = "Group"
               THEN GroupGet(P, IF hasDefault THEN OverrideDefault
                                ELSE IF DefaultOf(P) = PyNone THEN Dict(<<>>) ELSE DefaultOf(P))
               ELSE IF stored # Absent THEN stored
               ELSE IF hasDefault THEN OverrideDefault
               ELSE DefaultOf(P)
    IN  /\ call' = [NoCall EXCEPT !.op = "get", !.ids = P, !.hasMax = hasDefault,
                       !.ret = IF nav \in {"TypeError", "AttributeError"} THEN Absent
                               ELSE IF ret = Raised THEN Absent ELSE ret,
                       !.e = IF nav \in {"TypeError", "AttributeError"} THEN nav
                             ELSE IF ret = Raised THEN "TypeError" ELSE "none"]
        /\ UNCHANGED <<at_index, force_registration, cats, dest, mig, store, defaults, custom_groups,
                       lockCache, locks, ref, pc, kind, path, acq, loc, orig, exc, sets, mod>>

\* Group.get_raw(*P) on the global Group, no default passed: the defaults are
\* walked first, then the backend is read
GetRawOutcome(P) ==
    LET stored == GetIn(StoreTree(store), P)
        default == Walk(DefaultsTree, P)
    IN  IF default = Raised THEN Outcome("TypeError", Absent, stored)
        ELSE IF stored = Absent
        THEN IF default = Absent THEN Outcome("KeyError", Absent, stored)
             ELSE Outcome("none", default, stored)
        ELSE IF default.k = "dict"
        THEN IF stored.k # "dict" THEN Outcome("AttributeError", Absent, stored)
             ELSE IF nested_update(stored.d, default) = Raised
             THEN Outcome("TypeError", Absent, stored)
             ELSE Outcome("none", nested_update(stored.d, default), stored)
        ELSE Outcome("none", stored, stored)

\* await config.get_raw(*P)
GetRaw(P) ==
    /\ call' = [NoCall EXCEPT !.op = "get_raw", !.ids = P, !.ret = GetRawOutcome(P).ret,
                              !.e = GetRawOutcome(P).e]
    /\ UNCHANGED <<at_index, force_registration, cats, dest, mig, store, defaults, custom_groups,
                   lockCache, locks, ref, pc, kind, path, acq, loc, orig, exc, sets, mod>>

\* The values the caller stores with set_raw
RawValues == {PyNone, Num(5), Dict([k \in {"b"} |-> Num(2)])}
RawPaths == {<<"cnt">>, <<"grp">>, <<"grp", "a">>, <<"grp", "a", "x">>}

\* await config.set_raw(*P, value=v): Group.set_raw string-keys a dict and calls
\* driver.set with the identifiers P; the driver raises CannotSetSubfield when
\* a value on the way is no dict
SetRaw(P, v) ==
    LET new == SetIn(StoreTree(store), P, StoredForm(v))
    IN  /\ store' = IF new = Raised THEN store
                    ELSE [q \in Paths |-> IF q \in DOMAIN new.d THEN new.d[q] ELSE Absent]
        /\ call' = [NoCall EXCEPT !.op = "set_raw", !.ids = P, !.arg = v,
                                  !.e = IF new = Raised THEN "CannotSetSubfield" ELSE "none"]
        /\ UNCHANGED <<at_index, force_registration, cats, dest, mig, defaults, custom_groups, lockCache,
                       locks, ref, pc, kind, path, acq, loc, orig, exc, sets, mod>>

\* The default registered for config.grp: {"a": {"x": 1}}
NestGrp == [k \in {"a"} |-> Dict([x \in {"x"} |-> Num(1)])]

\* A Config made with or without force_registration, on which nothing or
\* register_global(cnt=0, lst=[], grp=g) has been called
InitRead ==
    /\ store = [p \in Paths |-> Absent]
    /\ \/ defaults = [p \in Paths |-> Absent]
       \/ \E g \in {StrGrp, NestGrp} : defaults = RegisteredDefaults(g)
    /\ force_registration \in BOOLEAN
    /\ Idle

NextRead ==
    \/ \E P \in RawPaths : \E v \in RawValues : SetRaw(P, v)
    \/ \E P \in NavPaths : \E hasDefault \in BOOLEAN : ValueCall(P, hasDefault)
    \/ \E P \in NavPaths : GetRaw(P)

SpecRead == InitRead /\ [][NextRead]_vars

\* ------------------------------------------------------------ migration
\* export_data: the categories read, every ConfigCategory and then the keys of
\* custom_group_data (n: the declared arity of "X", 0 when it is not declared)
BuiltinCategories(n) == <<"GLOBAL", "GUILD", "MEMBER">>
ExportCategories(n) == <<"GLOBAL", "GUILD", "MEMBER">> \o (IF n > 0 THEN <<"X">> ELSE <<>>)

\* flatten of _split_primary_key: the (primary key, document) pairs found
\* levels_remaining levels below currdata
RECURSIVE flatten(_, _, _)
flatten(levels_remaining, currdata, parent_key) ==
    UNION {IF levels_remaining > 1
           THEN flatten(levels_remaining - 1, currdata[k].d, Append(parent_key, k))
           ELSE {<<Append(parent_key, k), currdata[k]>>} : k \in DOMAIN currdata}

\* BaseDriver._split_primary_key(category, custom_group_data, data)
split_primary_key(c, n, data) ==
    IF PkeyLen(c, n) = 0 THEN {<<<<>>, data>>} ELSE flatten(PkeyLen(c, n), data.d, <<>>)

\* import_data before its next set: the pairs of cog_data from the first one
\* that has a scope instance on, and the instances of that one
RECURSIVE ImportState(_, _)
ImportState(cog_data, n) ==
    IF cog_data = <<>> THEN [exported |-> <<>>, pending |-> {}]
    ELSE IF split_primary_key(Head(cog_data)[1], n, Head(cog_data)[2]) = {}
    THEN ImportState(Tail(cog_data), n)
    ELSE [exported |-> cog_data,
          pending |-> split_primary_key(Head(cog_data)[1], n, Head(cog_data)[2])]

\* a migration that moves: what it has read is cleared from the source
SourceClearedByGet(B, g, c) == DriverClear(B, g, c, <<>>)

\* The source backend after this_driver.get(ident_data) of export_data
SourceAfterGet(B, g, c) == B

\* migrate_to enters import_data with what export_data returned, or goes on to
\* the next owner when nothing of it has a scope instance
AfterExport(cog_data) ==
    LET st == ImportState(cog_data, mig.custom[mig.cog])
    IN  mig' = [mig EXCEPT !.phase = IF st.exported = <<>> THEN "iter" ELSE "import",
                           !.left = <<>>, !.exported = st.exported, !.pending = st.pending]

\* cls.migrate_to(new_driver_cls, all_custom_group_data) is called; aiter_cogs
\* will yield the owners that have data on the source
MigrateStart ==
    /\ mig.phase = "idle"
    /\ mig' = [mig EXCEPT !.phase = "iter", !.todo = {g \in Cogs : cats[g] # EmptyCog}]
    /\ UNCHANGED <<at_index, force_registration, cats, dest, call, store, defaults, custom_groups,
                   lockCache, locks, ref, pc, kind, path, acq, loc, orig, exc, sets, mod>>

\* async for cog_name, cog_id in cls.aiter_cogs(): the next owner, or the end
MigrateNextCog ==
    /\ mig.phase = "iter"
    /\ \/ /\ mig.todo = {}
          /\ mig' = [mig EXCEPT !.phase = "done"]
       \/ \E g \in mig.todo :
             mig' = [mig EXCEPT !.phase = "export", !.cog = g, !.todo = @ \ {g},
                                !.left = ExportCategories(mig.custom[g]),
                                !.exported = <<>>, !.pending = {}]
    /\ UNCHANGED <<at_index, force_registration, cats, dest, call, store, defaults, custom_groups,
                   lockCache, locks, ref, pc, kind, path, acq, loc, orig, exc, sets, mod>>

\* export_data: data = await self.get(ident_data) for the next category;
\* KeyError: continue
MigrateExportGet ==
    /\ mig.phase = "export"
    /\ LET c == Head(mig.left)
           data == DriverGet(cats, mig.cog, c, <<>>)
           cog_data == IF data = Absent THEN mig.exported
                       ELSE Append(mig.exported, <<c, data>>)
       IN  /\ cats' = SourceAfterGet(cats, mig.cog, c)
           /\ IF Len(mig.left) = 1 THEN AfterExport(cog_data)
              ELSE mig' = [mig EXCEPT !.left = Tail(@), !.exported = cog_data]
    /\ UNCHANGED <<at_index, force_registration, dest, call, store, defaults, custom_groups,
                   lockCache, locks, ref, pc, kind, path, acq, loc, orig, exc, sets, mod>>

\* import_data: await self.set(ident_data, data) for one scope instance of the
\* category being written, in the order the dict gives them
MigrateImportSet ==
    /\ mig.phase = "import"
    /\ \E pair \in mig.pending :
          /\ dest' = DriverSet(dest, mig.cog, Head(mig.exported)[1], pair[1], pair[2])
          /\ IF mig.pending = {pair}
             THEN AfterExport(Tail(mig.exported))
             ELSE mig' = [mig EXCEPT !.pending = @ \ {pair}]
    /\ UNCHANGED <<at_index, force_registration, cats, call, store, defaults, custom_groups,
                   lockCache, locks, ref, pc, kind, path, acq, loc, orig, exc, sets, mod>>

\* A call of a driver raises (the connection is lost): migrate_to ends there
MigrateFails ==
    /\ mig.phase \in {"iter", "export", "import"}
    /\ mig' = [mig EXCEPT !.phase = "failed"]
    /\ UNCHANGED <<at_index, force_registration, cats, dest, call, store, defaults, custom_groups,
                   lockCache, locks, ref, pc, kind, path, acq, loc, orig, exc, sets, mod>>

\* The documents a source backend holds: every category keyed down to its
\* scope instances, a guild without members and a category without instances
\* included
Doc(i) == Dict([f \in {"foo"} |-> Num(i)])
RECURSIVE Nest(_, _)
Nest(n, doc) == IF n = 0 THEN doc ELSE Dict([k \in {"1"} |-> Nest(n - 1, doc)])
GlobalDocs == {Absent, Doc(1)}
GuildDocs ==
    {Absent, Dict(<<>>), Dict([k \in {"1"} |-> Doc(1)]),
     Dict([k \in {"1", "2"} |-> IF k = "1" THEN Doc(1) ELSE Doc(2)])}
MemberDocs ==
    {Absent, Dict([k \in {"1"} |-> Dict(<<>>)]),
     Dict([k \in {"1", "2"} |->
             IF k = "1" THEN Dict([u \in {"1", "2"} |-> IF u = "1" THEN Doc(1) ELSE Doc(2)])
             ELSE Dict([u \in {"2"} |-> Doc(3)])])}
\* "X" written with arity n; with n = 0 it is not declared to the migration
CustomDocs(n) == {Absent, Nest(IF n = 0 THEN 1 ELSE n, Doc(4))}
SourceCogs(n) ==
    {[c \in Categories |-> CASE c = "GLOBAL" -> g [] c = "GUILD" -> u
                             [] c = "MEMBER" -> m [] OTHER -> x] :
        g \in GlobalDocs, u \in GuildDocs, m \in MemberDocs, x \in CustomDocs(n)}
OtherCogs == {EmptyCog, [EmptyCog EXCEPT !["GUILD"] = Dict([k \in {"2"} |-> Doc(5)])]}

\* Both drivers initialised, the destination empty
InitMigrate ==
    /\ store = [p \in Paths |-> Absent]
    /\ defaults = [p \in Paths |-> Absent]
    /\ force_registration = FALSE
    /\ Fresh
    /\ dest = EmptyBackend
    /\ \E n \in 0..MaxArity :
          /\ mig = [NoMig EXCEPT !.custom = [g \in Cogs |-> IF g = "A" THEN n ELSE 0]]
          /\ \E a \in SourceCogs(n), b \in OtherCogs :
                cats = [g \in Cogs |-> IF g = "A" THEN a ELSE b]

NextMigrate ==
    \/ MigrateStart
    \/ MigrateNextCog
    \/ MigrateExportGet
    \/ MigrateImportSet
    \/ MigrateFails

SpecMigrate == InitMigrate /\ [][NextMigrate]_vars

\* ------------------------------------------------ the tasks on path keys
\* Locked operations on accessors beneath a field and on scope instances:
\*  dinc on "grp.a", "m1", "m2": BaseDriver.inc(identifier_data, 1, 0,
\*        lock=get_lock()) on config.grp.a, config.member((1, 1)).cnt and
\*        config.member((1, 2)).cnt
\*  ctx on "grp": async with config.grp() as x: x["b"] = ...
KeyKindPaths(k) == IF k = "dinc" THEN LockKeys \ Paths ELSE {"grp"}

\* driver.get(identifier_data of k) when the global fields are S and the
\* category documents are C (Absent: KeyError)
KeyGet(S, C, k) ==
    LET id == IdentifierOf(k)
    IN  IF id.category = "GLOBAL"
        THEN GetIn(S[Head(id.identifiers)], Tail(id.identifiers))
        ELSE DriverGet(C, "A", id.category, id.primary_key \o id.identifiers)

\* driver.set(identifier_data of k, v): the global fields and the category
\* documents afterwards (unchanged when a value on the way is no dict)
KeyPut(S, C, k, v) ==
    LET id == IdentifierOf(k)
    IN  IF id.category = "GLOBAL"
        THEN LET new == SetIn(S[Head(id.identifiers)], Tail(id.identifiers), v)
             IN  [store |-> IF new = Raised THEN S
                            ELSE [S EXCEPT ![Head(id.identifiers)] = new],
                  cats |-> C]
        ELSE [store |-> S,
              cats |-> DriverSet(C, "A", id.category, id.primary_key \o id.identifiers, v)]

\* A task starts the locked operation k on the accessor key.
KeyStart(t, k, key) ==
    /\ pc[t] = "idle"
    /\ \A u \in Tasks : u < t => pc[u] # "idle"
    /\ Registered
    /\ k \in {"dinc", "ctx"}
    /\ key \in KeyKindPaths(k)
    /\ kind' = [kind EXCEPT ![t] = k]
    /\ path' = [path EXCEPT ![t] = key]
    /\ acq' = [acq EXCEPT ![t] = TRUE]
    /\ Acquire(t, k, key, TRUE)
    /\ UNCHANGED <<at_index, force_registration, cats, dest, mig, call, store, defaults, custom_groups,
                   loc, orig, sets, mod>>

\* driver.get returns to BaseDriver.inc on an accessor beneath a field or of a
\* scope instance: KeyError gives the default 0, a stored non-number raises
\* StoredTypeError out of `async with lock`, otherwise driver.set is called
\* with the sum.
KeyGetReturns(t) ==
    /\ pc[t] = "get"
    /\ path[t] \notin Paths
    /\ LET v == KeyGet(store, cats, path[t])
           existing_value == IF v = Absent THEN Num(0) ELSE v
       IN  IF v # Absent /\ v.k \notin {"num", "bool"}
           THEN /\ Finish(t, "StoredTypeError", TRUE)
                /\ sets' = sets
           ELSE /\ loc' = [loc EXCEPT ![t] = Num(existing_value.n + 1)]
                /\ pc' = [pc EXCEPT ![t] = "set"]
                /\ sets' = [sets EXCEPT ![t] = @ + 1]
                /\ UNCHANGED <<exc, locks, lockCache, ref, orig>>
    /\ UNCHANGED <<at_index, force_registration, cats, dest, mig, call, store, defaults, custom_groups,
                   kind, path, acq, mod>>

\* driver.set returns to BaseDriver.inc: the sum is stored at the accessor's
\* place, `async with lock` releases.
KeySetReturns(t) ==
    /\ pc[t] = "set"
    /\ path[t] \notin Paths
    /\ LET after == KeyPut(store, cats, path[t], loc[t])
       IN  /\ store' = after.store
           /\ cats' = after.cats
    /\ Finish(t, exc[t], TRUE)
    /\ UNCHANGED <<at_index, force_registration, dest, mig, call, defaults, custom_groups, kind, path,
                   acq, sets, mod>>

\* What the operation of task t leaves when it runs alone, from its first step
\* to its last, on the global fields S and the category documents C: the sum
\* for an increment, the overlaid group with the block's key for a scope whose
\* block edited it.
RunAlone(S, C, t) ==
    IF kind[t] = "dinc"
    THEN LET v == KeyGet(S, C, path[t])
         IN  KeyPut(S, C, path[t], Num((IF v = Absent THEN 0 ELSE v.n) + 1))
    ELSE IF ~mod[t] THEN [store |-> S, cats |-> C]
    ELSE LET x == ReadValue(path[t], S[path[t]])
         IN  [store |-> [S EXCEPT ![path[t]] =
                           StoredForm(Dict(With(x.d, "b", BlockValue(t))))],
              cats |-> C]

\* Two tasks run locked operations on accessors of one Config, whose registered
\* defaults are cnt=0, lst=[], grp={}
InitKeys ==
    /\ store = [p \in Paths |-> Absent]
    /\ defaults = RegisteredDefaults(EmptyGrp)
    /\ force_registration = FALSE
    /\ Idle

NextKeys ==
    \E t \in Tasks :
        \/ \E k \in {"dinc", "ctx"}, key \in LockKeys : KeyStart(t, k, key)
        \/ LockGranted(t)
        \/ path[t] \in Paths /\ GetReturns(t)
        \/ KeyGetReturns(t)
        \/ BodyMutate(t, "b")
        \/ BodyEnds(t, "none")
        \/ path[t] \in Paths /\ SetReturns(t)
        \/ KeySetReturns(t)

SpecKeys == InitKeys /\ [][NextKeys]_vars

\* ------------------------------------------- plain calls beside the tasks
\* The value another task passes to a plain `await config.<p>.set(...)` while
\* scopes are open: 9, [9] or {"a": 9}
PlainValue(p) ==
    CASE p = "cnt" -> Num(9)
      [] p = "lst" -> List(<<9>>)
      [] OTHER -> Dict([x \in {"a"} |-> Num(9)])

\* The fields the scopes are opened and the plain sets are made on
PlainPaths == {"lst", "grp"}

\* Tasks open scopes with the lock on the list and the group while plain sets
\* are made on the same fields
NextPlain ==
    \/ \E t \in Tasks :
          \/ \E p \in PlainPaths : Start(t, "ctx", p, TRUE)
          \/ LockGranted(t)
          \/ GetReturns(t)
          \/ BodyMutate(t, "b")
          \/ BodyEnds(t, "none")
          \/ SetReturns(t)
    \/ \E p \in PlainPaths : ValueSet(p, PlainValue(p))

SpecPlain == InitKeys /\ [][NextPlain]_vars

\* ------------------------------------------- the values handed to the driver
\* A list whose items are dicts.  The items are kept in d under their positions
\* "#1", "#2", ... (l keeps the items of a list of numbers).
ItemList(f) == MkVal("list", 0, <<>>, f)

\* [{1: 2}] and [{"a": 2}]
IntKeyItems == ItemList([x \in {"#1"} |-> Dict([y \in {"i1"} |-> Num(2)])])
StrKeyItems == ItemList([x \in {"#1"} |-> Dict([y \in {"a"} |-> Num(2)])])

\* The values the caller passes to config.lst.set and config.grp.set, and as
\* value to set_raw: [1], [{1: 2}], [{"a": 2}]; {1: {1: 3}}, {"a": [{1: 2}]},
\* {"a": [{"a": 2}]}
HandedValues(p) ==
    IF p = "lst" THEN {List(<<1>>), IntKeyItems, StrKeyItems}
    ELSE {Dict([x \in {"i1"} |-> Dict([y \in {"i1"} |-> Num(3)])]),
          Dict([x \in {"a"} |-> IntKeyItems]),
          Dict([x \in {"a"} |-> StrKeyItems])}

HandedPaths == {"lst", "grp"}

\* The nested path set_raw is called with: config.set_raw("grp", "z", value=...)
HandedRawPath == <<"grp", "z">>

\* The caller sets lists and dicts, with set and with set_raw, and tasks open
\* scopes on the group, whose blocks add a str or an int key
NextHanded ==
    \/ \E p \in HandedPaths : \E v \in HandedValues(p) : ValueSet(p, v)
    \/ \E v \in HandedValues("grp") : SetRaw(HandedRawPath, v)
    \/ \E t \in Tasks :
          \/ Start(t, "ctx", "grp", TRUE)
          \/ LockGranted(t)
          \/ GetReturns(t)
          \/ \E key \in {"b", "i1"} : BodyMutate(t, key)
          \/ BodyEnds(t, "none")
          \/ SetReturns(t)

SpecHanded == InitKeys /\ [][NextHanded]_vars

\* ------------------------------------------------------- the accessors
\* The accessor the caller holds is kept in `call`: op "accessor", cat the
\* category, pkey the primary key, ids the identifiers of its identifier_data.
\* The longest accessor path the caller builds
MaxDepth == 4

\* The items the caller navigates with: ids and a field name
NavItems == Ids \cup {"foo"}

\* Group.__getitem__ on the accessor acc, items being the item (a str or an int,
\* one element) or the items of the iterable passed: add_primary_key while the
\* primary key is shorter than primary_key_len, add_identifier otherwise, each
\* with all the items at once
getitem(acc, items, pkey_len) ==
    IF Len(acc.pkey) < pkey_len
    THEN [acc EXCEPT !.pkey = acc.pkey \o items]
    ELSE [acc EXCEPT !.ids = acc.ids \o items]

\* config.custom("X", *pks): ValueError unless "X" is in custom_groups, else
\* _get_base_group("X", *map(str, pks)), whose primary key is pks
CustomAccessor(pks) ==
    /\ call' = IF custom_groups = 0
               THEN [NoCall EXCEPT !.op = "custom", !.e = "ValueError"]
               ELSE [NoCall EXCEPT !.op = "accessor", !.cat = "X", !.pkey = pks]
    /\ UNCHANGED <<at_index, force_registration, cats, dest, mig, store, defaults, custom_groups,
                   lockCache, locks, ref, pc, kind, path, acq, loc, orig, exc, sets, mod>>

\* config.guild / config.member: the ModelGroup the descriptor builds, with an
\* empty primary key; and config itself through _get_base_group("GLOBAL")
BaseAccessor(c) ==
    /\ c \in {"GLOBAL", "GUILD", "MEMBER"}
    /\ call' = [NoCall EXCEPT !.op = "accessor", !.cat = c]
    /\ UNCHANGED <<at_index, force_registration, cats, dest, mig, store, defaults, custom_groups,
                   lockCache, locks, ref, pc, kind, path, acq, loc, orig, exc, sets, mod>>

\* config.guild(g) and config.member((g, u)): ModelGroup.__call__ adds the
\* primary key its getter returns, (str(g),) or (str(g), str(u)); member
\* unpacks its argument into two, ValueError when it has another length
ModelAccessor(c, model) ==
    /\ c \in {"GUILD", "MEMBER"}
    /\ call' = IF c = "MEMBER" /\ Len(model) # 2
               THEN [NoCall EXCEPT !.op = "model", !.cat = c, !.e = "ValueError"]
               ELSE [NoCall EXCEPT !.op = "accessor", !.cat = c, !.pkey = model]
    /\ UNCHANGED <<at_index, force_registration, cats, dest, mig, store, defaults, custom_groups,
                   lockCache, locks, ref, pc, kind, path, acq, loc, orig, exc, sets, mod>>

\* accessor[item] and accessor[item1, item2] on the accessor the caller holds
ChildAccessor(items) ==
    /\ call.op = "accessor"
    /\ Len(call.pkey) + Len(call.ids) + Len(items) <= MaxDepth
    /\ LET new == getitem([pkey |-> call.pkey, ids |-> call.ids], items,
                          PkeyLen(call.cat, custom_groups))
       IN  call' = [call EXCEPT !.pkey = new.pkey, !.ids = new.ids]
    /\ UNCHANGED <<at_index, force_registration, cats, dest, mig, store, defaults, custom_groups,
                   lockCache, locks, ref, pc, kind, path, acq, loc, orig, exc, sets, mod>>

\* The sequences of 1 to n elements of S
SeqsUpTo(S, n) == UNION {[1..m -> S] : m \in 1..n}

NextAccessors ==
    \/ \E n \in 1..MaxArity : init_custom(n)
    \/ \E pks \in {<<>>} \cup SeqsUpTo(Ids, MaxArity + 1) : CustomAccessor(pks)
    \/ \E c \in Categories : BaseAccessor(c)
    \/ \E c \in Categories : \E model \in SeqsUpTo(Ids, 2) : ModelAccessor(c, model)
    \/ \E items \in SeqsUpTo(NavItems, 2) : ChildAccessor(items)

SpecAccessors == Init /\ [][NextAccessors]_vars

\* ----------------------------------------------------- element assignment
\* await config.lst.set_at(index, t): Array.set_at passes default=self.default and
\* lock=self.get_lock() to BaseDriver.set_at, which enters `async with lock`
SetAtStart(t, i) ==
    /\ pc[t] = "idle"
    /\ \A u \in Tasks : u < t => pc[u] # "idle"
    /\ Registered
    /\ kind' = [kind EXCEPT ![t] = "setat"]
    /\ path' = [path EXCEPT ![t] = "lst"]
    /\ acq' = [acq EXCEPT ![t] = TRUE]
    /\ at_index' = [at_index EXCEPT ![t] = i]
    /\ Acquire(t, "setat", "lst", TRUE)
    /\ UNCHANGED <<force_registration, cats, dest, mig, call, store, defaults, custom_groups,
                   loc, orig, sets, mod>>

\* The lists of 7s and 8s of up to MaxLen elements
ShortLists == UNION {[1..n -> {7, 8}] : n \in 0..MaxLen}

\* config.register_global(cnt=0, lst=[], grp={}); config.lst holds nothing, a
\* number, or a list
InitSetAt ==
    /\ store \in {[p \in Paths |-> IF p = "lst" THEN v ELSE Absent] :
                    v \in {Absent, Num(1)} \cup {List(s) : s \in ShortLists}}
    /\ defaults = RegisteredDefaults(EmptyGrp)
    /\ force_registration = FALSE
    /\ Idle

\* The tasks assign elements at indexes from -(MaxLen + 1) to MaxLen
NextSetAt ==
    \E t \in Tasks :
        \/ \E i \in (-(MaxLen + 1))..MaxLen : SetAtStart(t, i)
        \/ LockGranted(t)
        \/ GetReturns(t)
        \/ SetReturns(t)

SpecSetAt == InitSetAt /\ [][NextSetAt]_vars

\* ------------------------------------------- a locked call inside a scope
\* a lock that lets its holder acquire it again
AcquiresAgain(lk, t) == lk.owner = t

\* Whether acquire() called by task t returns without waiting: Lock.acquire
\* looks at _locked and the waiters only, it does not know who holds the lock
AcquiresAtOnce(lk, t) == CanTake(lk)

\* The locked operations a block can call on the accessor of its scope: the
\* Array methods where the accessor is an Array, a nested scope with the lock
\* anywhere
NestedKinds(p) ==
    IF AccessorClass(p) = "Array" THEN {"extend", "insert", "setat", "ctx"} ELSE {"ctx"}

\* Inside the block of its scope on config.<p> (taken with the lock), task t
\* calls the locked operation k on config.<p>: get_lock() returns the cached
\* lock, the one the scope holds, and the operation acquires it.  When acquire()
\* has to wait the task is parked in it ("reenter"), appended to the waiters.
Reenter(t, k) ==
    /\ pc[t] = "body"
    /\ kind[t] = "ctx"
    /\ acq[t]
    /\ k \in NestedKinds(path[t])
    /\ LET l == get_lock(path[t])
       IN  IF AcquiresAtOnce(locks[l], t)
           THEN /\ pc' = [pc EXCEPT ![t] = "nested"]
                /\ locks' = [locks EXCEPT ![l] = Take(@, t)]
           ELSE /\ pc' = [pc EXCEPT ![t] = "reenter"]
                /\ locks' = [locks EXCEPT ![l] = Enqueue(@, t)]
    /\ UNCHANGED <<at_index, force_registration, cats, dest, mig, call, store, defaults, custom_groups,
                   lockCache, ref, kind, path, acq, loc, orig, exc, sets, mod>>

\* The task is cancelled while it is parked in the nested acquire(): its future
\* leaves the waiters, CancelledError leaves the block, and __aexit__ writes a
\* changed structure back or releases the lock at once.
CancelReenter(t) ==
    /\ pc[t] = "reenter"
    /\ LET lks == [locks EXCEPT ![ref[t]] = CancelWaiter(@, t)]
       IN  IF Changed(loc[t], orig[t])
           THEN /\ pc' = [pc EXCEPT ![t] = "set"]
                /\ exc' = [exc EXCEPT ![t] = "Cancelled"]
                /\ sets' = [sets EXCEPT ![t] = @ + 1]
                /\ locks' = lks
                /\ UNCHANGED <<lockCache, ref, loc, orig>>
           ELSE /\ pc' = [pc EXCEPT ![t] = "cancelled"]
                /\ exc' = [exc EXCEPT ![t] = "Cancelled"]
                /\ loc' = [loc EXCEPT ![t] = Absent]
                /\ orig' = [orig EXCEPT ![t] = Absent]
                /\ sets' = sets
                /\ Commit([lks EXCEPT ![ref[t]] = Release(@)], lockCache,
                          [ref EXCEPT ![t] = NoLock])
    /\ UNCHANGED <<at_index, force_registration, cats, dest, mig, call, store, defaults, custom_groups,
                   kind, path, acq, mod>>

\* Tasks open scopes with the lock on the list and the group; their blocks may
\* call a locked operation on the same accessor
NextReenter ==
    \E t \in Tasks :
        \/ \E p \in {"lst", "grp"} : Start(t, "ctx", p, TRUE)
        \/ LockGranted(t)
        \/ GetReturns(t)
        \/ BodyMutate(t, "b")
        \/ \E k \in {"extend", "insert", "setat", "ctx"} : Reenter(t, k)
        \/ CancelReenter(t)
        \/ BodyEnds(t, "none")
        \/ SetReturns(t)

SpecReenter == InitKeys /\ [][NextReenter]_vars


\* ------------------------------------------------------ fair scheduling
\* The event loop runs every task that is ready: a waiter whose future release()
\* has set resumes inside acquire(), a backend call that was awaited returns, a
\* block that was entered ends.  No task is cancelled, no backend call fails,
\* every block ends by itself, and no task asks for a lock it holds (a task
\* runs one operation).  Whether a task starts at all, and whether its block
\* edits the structure, is left open.
FairKinds == DerivedKinds \cup ScopeKinds

Proceed(t) ==
    \/ LockGranted(t)
    \/ GetReturns(t)
    \/ BodyEnds(t, "none")
    \/ SetReturns(t)

NextFair ==
    \E t \in Tasks :
        \/ \E k \in FairKinds : \E p \in KindPaths(k) : Start(t, k, p, TRUE)
        \/ LockGranted(t)
        \/ GetReturns(t)
        \/ BodyMutate(t, "b")
        \/ BodyEnds(t, "none")
        \/ SetReturns(t)

SpecFair == InitKeys /\ [][NextFair]_vars /\ \A t \in Tasks : WF_vars(Proceed(t))


\* ------------------------------------------- scopes on a group with defaults
\* async with config.grp(acquire_lock=a) as x: ... over a group whose registered
\* default is flat ({"a": 1}) or nested ({"a": {"x": 1}}), and whose stored
\* document is absent or holds other keys than the default's.
OverlayStored(g) ==
    {Absent, Dict([k \in {"b"} |-> Num(5)])}
        \cup (IF g = NestGrp THEN {Dict([k \in {"a"} |-> Dict([x \in {"y"} |-> Num(2)])])}
              ELSE {})

InitOverlay ==
    /\ \E g \in {StrGrp, NestGrp} :
          /\ defaults = RegisteredDefaults(g)
          /\ \E V \in OverlayStored(g) :
                store = [q \in Paths |-> IF q = "grp" THEN V ELSE Absent]
    /\ force_registration = FALSE
    /\ Idle

NextOverlay ==
    \E t \in Tasks :
        \/ \E a \in BOOLEAN : Start(t, "ctx", "grp", a)
        \/ LockGranted(t)
        \/ GetReturns(t)
        \/ \E key \in {"b", "i1"} : BodyMutate(t, key)
        \/ \E e \in {"none", "RuntimeError"} : BodyEnds(t, e)
        \/ SetReturns(t)

SpecOverlay == InitOverlay /\ [][NextOverlay]_vars


\* ------------------------------------------- get_raw with a default passed
\* The defaults a caller passes: True (test_get_dynamic_attr) and a dict
RawDefaults == {Bool(TRUE), Dict([k \in {"y"} |-> Num(2)])}

\* Group.get_raw(*P, default=d) on the global Group: the registered defaults are
\* not walked; driver.get's KeyError returns d; a value that is stored is
\* overlaid on d by __nested_update when d is a dict (raw.items() raises
\* AttributeError when that value is no dict), and returned as it is otherwise.
GetRawDefaultOutcome(P, d) ==
    LET stored == GetIn(StoreTree(store), P)
    IN  IF stored = Absent THEN Outcome("none", d, stored)
        ELSE IF d.k = "dict"
        THEN IF stored.k # "dict" THEN Outcome("AttributeError", Absent, stored)
             ELSE IF nested_update(stored.d, d) = Raised
             THEN Outcome("TypeError", Absent, stored)
             ELSE Outcome("none", nested_update(stored.d, d), stored)
        ELSE Outcome("none", stored, stored)

\* await config.get_raw(*P, default=d)
GetRawDefault(P, d) ==
    /\ call' = [NoCall EXCEPT !.op = "get_raw_default", !.ids = P, !.arg = d,
                              !.before = GetRawDefaultOutcome(P, d).stored,
                              !.ret = GetRawDefaultOutcome(P, d).ret,
                              !.e = GetRawDefaultOutcome(P, d).e]
    /\ UNCHANGED <<at_index, force_registration, cats, dest, mig, store, defaults, custom_groups,
                   lockCache, locks, ref, pc, kind, path, acq, loc, orig, exc, sets, mod>>

NextRawDefault ==
    \/ \E P \in RawPaths : \E v \in RawValues : SetRaw(P, v)
    \/ \E P \in RawPaths : \E d \in RawDefaults : GetRawDefault(P, d)

SpecRawDefault == InitRead /\ [][NextRawDefault]_vars

\* ============================================================ properties
\* A task is inside a lock-guarded section: between the acquisition of the
\* path's lock and its release.
LockGuarded(t) ==
    /\ pc[t] \in {"get", "body", "set"}
    /\ \/ kind[t] \in DerivedKinds
       \/ kind[t] = "manual"
       \/ kind[t] \in ScopeKinds /\ acq[t]

\* C1: when every task calls Value.inc(1) on the counter (stored value 0: nothing
\* stored, registered default 0) and all the calls are over, the stored value is
\* the number of tasks.
C1_ConcurrentIncrementsAllCounted ==
    (\A t \in Tasks : kind[t] = "vinc" /\ pc[t] \in Ended)
        => store["cnt"] = Num(NTasks)

\* C2: when every task appends one element to the list inside a locking
\* MutationScope, or inside a manual get / append / sleep / set wrapped in the
\* lock of get_lock(), and all have finished, the stored list has one element per
\* task: no append is lost.
C2_LockedAppendsAllStored ==
    (\A t \in Tasks : /\ kind[t] \in {"ctx", "manual"}
                      /\ path[t] = "lst"
                      /\ acq[t]
                      /\ kind[t] = "ctx" => mod[t]
                      /\ pc[t] = "done")
        => /\ store["lst"].k = "list"
           /\ Len(store["lst"].l) = NTasks
           /\ \A t \in Tasks : \E i \in 1..NTasks : store["lst"].l[i] = t

C2_Witness ==
    /\ \A t \in Tasks : pc[t] = "done" /\ path[t] = "lst" /\ acq[t]
    /\ kind[1] = "ctx" /\ mod[1]
    /\ \A t \in Tasks \ {1} : kind[t] = "manual"

\* C3: at most one task at a time is inside a lock-guarded section of a given
\* path.
C3_MutualExclusion ==
    \A t \in Tasks, u \in Tasks :
        (t # u /\ LockGuarded(t) /\ LockGuarded(u)) => path[t] # path[u]

C3_Witness ==
    \E t \in Tasks, u \in Tasks :
        /\ LockGuarded(t) /\ pc[u] = "wait" /\ path[u] = path[t]
        /\ kind[t] \in ScopeKinds /\ kind[u] \in DerivedKinds

\* C4: once a MutationScope opened with acquire_lock=True has ended, in whatever
\* way, the path's lock is not left locked by it.
C4_EndedScopeHoldsNoLock ==
    \A t \in Tasks :
        (kind[t] = "ctx" /\ acq[t] /\ pc[t] \in Ended)
            => \A l \in LockIds :
                  ~(locks[l].alive /\ locks[l].locked /\ locks[l].owner = t)

\* C5: a derived operation that has ended (returned, failed, or was cancelled
\* while waiting for the lock or the backend) neither holds the path's lock nor
\* queues for it.
C5_EndedDerivedOpHoldsNoLock ==
    \A t \in Tasks :
        (kind[t] \in DerivedKinds /\ pc[t] \in Ended)
            => \A l \in LockIds :
                  locks[l].alive =>
                      /\ locks[l].owner # t
                      /\ \A i \in 1..Len(locks[l].waiters) : locks[l].waiters[i] # t

C5_Witness ==
    \E t \in Tasks, u \in Tasks :
        /\ kind[t] \in DerivedKinds /\ pc[t] = "cancelled"
        /\ kind[u] \in DerivedKinds /\ path[u] = path[t]
        /\ ref[u] # NoLock /\ locks[ref[u]].owner = u

\* C6: a MutationScope whose block does not modify the yielded structure issues
\* no driver.set call.
C6_UnmodifiedScopeWritesNothing ==
    \A t \in Tasks : (kind[t] \in ScopeKinds /\ ~mod[t]) => sets[t] = 0

\* C7: when the block of a MutationScope has modified the structure and raises,
\* the exception leaves the scope only after driver.set was called and stored the
\* modified structure.
C7_RaisingBlockIsWrittenBack ==
    [][\A t \in Tasks :
          (/\ kind[t] \in ScopeKinds /\ mod[t]
           /\ pc[t] \notin Ended
           /\ pc'[t] = "failed" /\ exc'[t] = "RuntimeError")
              => /\ sets'[t] = 1
                 /\ store'[path[t]] = StoredForm(loc[t])]_vars

C7_Witness ==
    \E t \in Tasks :
        /\ kind[t] = "ctx" /\ mod[t] /\ pc[t] = "failed" /\ exc[t] = "RuntimeError"
        /\ sets[t] = 1
        /\ store[path[t]] # Absent

\* C8 as stated: while a caller holds a path's lock (its acquire() returned and
\* it has not released), get_lock() for that path returns that lock.
C8_AcquiredLockIsCached ==
    \A t \in Tasks :
        (LockGuarded(t) \/ pc[t] = "held")
            => /\ lockCache[path[t]] # NoLock
               /\ locks[lockCache[path[t]]].owner = t

\* C8 amended: while a caller keeps a reference to a path's lock, get_lock() for
\* that path returns that lock, to every accessor; locks of different paths are
\* different objects.
C8_ReferencedLockIsCached ==
    /\ \A t \in Tasks :
          ref[t] # NoLock =>
              /\ lockCache[path[t]] = ref[t]
              /\ locks[ref[t]].alive
              /\ locks[ref[t]].path = path[t]
    /\ \A p \in Paths, q \in Paths :
          (p # q /\ lockCache[p] # NoLock) => lockCache[p] # lockCache[q]

C8_Witness ==
    \E t \in Tasks, u \in Tasks :
        /\ t # u /\ path[t] = path[u]
        /\ ref[t] # NoLock /\ ref[u] = ref[t]
        /\ locks[ref[t]].owner = t
        /\ pc[u] = "wait"

\* C9: requesting the Config again leaves its registered defaults, its custom
\* group arities and its lock table as they were.
C9_ReRequestKeepsState ==
    [][ReRequest => UNCHANGED <<defaults, custom_groups, lockCache>>]_vars

\* The overlay as the specification words it: every key of D, every key of S
\* with S's value, a dict of S merged into a dict of D.
RECURSIVE Overlay(_, _)
Overlay(S, D) ==
    [key \in DOMAIN D \cup DOMAIN S |->
        IF key \notin DOMAIN S THEN D[key]
        ELSE IF S[key].k = "dict" /\ key \in DOMAIN D /\ D[key].k = "dict"
        THEN Dict(Overlay(S[key].d, D[key].d))
        ELSE S[key]]

\* C10: a Group read returns the stored document overlaid on the default tree:
\* every key of D (D's value where S has none), every key of S with S's value,
\* dict values merged level by level.
C10_ReadOverlaysDefaults ==
    \A t \in Tasks :
        (kind[t] = "read" /\ pc[t] \in Ended /\ exc[t] \notin Failures)
            => /\ pc[t] = "done"
               /\ loc[t] = Dict(Overlay(store["grp"].d, defaults["grp"].d))

\* r is v with its dict keys converted to strings and nothing else changed.  Where
\* two keys of v have the same str(), r holds one of their values.
RECURSIVE KeysStringified(_, _)
KeysStringified(v, r) ==
    IF v.k # "dict" THEN r = v
    ELSE /\ r.k = "dict"
         /\ DOMAIN r.d = {StrKey(k) : k \in DOMAIN v.d}
         /\ \A k \in DOMAIN v.d :
               (\A k2 \in DOMAIN v.d : StrKey(k2) = StrKey(k) => k2 = k)
                   => KeysStringified(v.d[k], r.d[StrKey(k)])

\* C11 as stated: for every value v the accessor accepts, a get that directly
\* follows set(v) on the same path returns v with its dict keys converted to
\* strings and nothing else changed.
C11_SetThenGetReturnsValue ==
    (call.op = "get" /\ call.arg # Absent)
        => (call.e = "none" /\ KeysStringified(call.arg, call.ret))

\* C11: for every value v the accessor accepts, a get that directly follows
\* set(v) on the same path returns v with its dict keys converted to strings and
\* nothing else changed, when no default is registered beneath the path (the
\* accessor is a Value or an Array, or a Group whose default is the empty dict).
C11_SetThenGetWithoutDefaultsBeneath ==
    (call.op = "get" /\ call.arg # Absent /\ DOMAIN GroupDefaults(call.path) = {})
        => (call.e = "none" /\ KeysStringified(call.arg, call.ret))

\* a get after set({1: {1: 3}, ...}) on a path without defaults beneath
C11_Witness ==
    /\ call.op = "get"
    /\ call.arg.k = "dict"
    /\ "i1" \in DOMAIN call.arg.d
    /\ call.arg.d["i1"].k = "dict"
    /\ DOMAIN GroupDefaults(call.path) = {}
    /\ call.ret.k = "dict"
    /\ "1" \in DOMAIN call.ret.d

\* C12: when the caller mutates an object that a get returned (from storage or
\* from a registered default) or that was passed to set, the backend and the
\* registered default tree keep what they held, and so does what a get returns on
\* every path.
C12_MutationLeavesStorageAlone ==
    [][CallerMutates =>
          /\ store' = store
          /\ defaults' = defaults
          /\ \A q \in Paths : ReadValue(q, store[q])' = ReadValue(q, store[q])]_vars

\* the caller appended to a list it got or set, and the backend holds the list
\* without the new element
C12_Witness ==
    /\ call.op = "mutate"
    /\ call.ret.k = "list"
    /\ store[call.path].k = "list"
    /\ call.ret = List(Append(store[call.path].l, 9))

\* The list an Array call works on: the stored one, the default when none is stored
ListBefore == IF call.before = Absent THEN ValueDefault("lst").l ELSE call.before.l

\* C13: extend(items, max_length=m, prepend=p) on the stored (or, when absent,
\* default) list L writes back and returns L followed by items when appending,
\* items followed by L when prepending; when a bound m >= 0 is given and exceeded,
\* it is the last m elements of that sequence for append and the first m for
\* prepend, so the written list never has more than m elements.
C13_ExtendKeepsTheBound ==
    (call.op = "extend" /\ (call.before = Absent \/ call.before.k = "list")) =>
        LET whole == IF call.left THEN call.arg.l \o ListBefore
                     ELSE ListBefore \o call.arg.l
            n == Len(whole)
            m == call.max_length
            expected == IF call.hasMax /\ n > m
                        THEN IF call.left THEN SubSeq(whole, 1, m)
                             ELSE SubSeq(whole, n - m + 1, n)
                        ELSE whole
        IN  /\ call.e = "none"
            /\ call.ret = List(expected)
            /\ store["lst"] = List(expected)
            /\ call.hasMax => Len(store["lst"].l) <= m

\* a prepend that exceeded its bound and kept the first max_length elements
C13_Witness ==
    /\ call.op = "extend"
    /\ call.hasMax
    /\ call.left
    /\ call.before.k = "list"
    /\ call.max_length > 0
    /\ Len(call.arg.l) + Len(call.before.l) > call.max_length
    /\ Len(store["lst"].l) = call.max_length
    /\ store["lst"].l[1] = 3

\* C14: insert(index, item, max_length=m) on the stored (or default) list inserts
\* item at index with the semantics of list.insert (a negative index counts from
\* the end, an index beyond either end lands at that end); if the resulting
\* length exceeds m exactly the last element is removed; the list is written
\* back and returned.
C14_InsertDropsTheLast ==
    (call.op = "insert" /\ (call.before = Absent \/ call.before.k = "list")) =>
        LET L == ListBefore
            n == Len(L)
            i == IF call.index < 0 THEN Max(n + call.index, 0) ELSE Min(call.index, n)
            ins == [j \in 1..(n + 1) |->
                       IF j <= i THEN L[j] ELSE IF j = i + 1 THEN call.arg.n ELSE L[j - 1]]
            expected == IF call.hasMax /\ n + 1 > call.max_length
                        THEN [j \in 1..n |-> ins[j]] ELSE ins
        IN  /\ call.e = "none"
            /\ call.ret = List(expected)
            /\ store["lst"] = List(expected)

\* an insert at a negative index that went over the bound and lost the last
\* element of the list
C14_Witness ==
    /\ call.op = "insert"
    /\ call.index = -1
    /\ call.hasMax
    /\ call.before.k = "list"
    /\ Len(call.before.l) = 2
    /\ call.max_length = 2
    /\ store["lst"] = List(<<call.before.l[1], 5>>)

\* C15: the driver's index_of(item) returns the position of the first occurrence
\* of item in the stored list; it fails with KeyError (NotFound) when the key is
\* absent, with ValueError when item is not in the list, and with
\* StoredTypeError whenever the stored value is anything other than a list.
C15_IndexOfChecksTheType ==
    call.op = "index" =>
        CASE call.before = Absent -> call.e = "KeyError"
          [] call.before.k = "list" ->
                LET L == call.before.l
                    at == {j \in 1..Len(L) : call.arg.k = "num" /\ L[j] = call.arg.n}
                IN  IF at = {} THEN call.e = "ValueError"
                    ELSE /\ call.e = "none"
                         /\ call.ret.k = "num"
                         /\ call.ret.n + 1 \in at
                         /\ \A j \in at : call.ret.n + 1 <= j
          [] OTHER -> call.e = "StoredTypeError"

\* C16: at(index) on a stored list of length n returns the element at that
\* position for every index with -n <= index < n (a negative index counts from
\* the end) and raises IndexError for every other index; it raises
\* StoredTypeError when the stored value is not a list.
C16_AtReturnsTheElement ==
    (call.op = "at" /\ call.before # Absent) =>
        IF call.before.k # "list" THEN call.e = "StoredTypeError"
        ELSE LET L == call.before.l
                 n == Len(L)
             IN  IF -n <= call.index /\ call.index < n
                 THEN /\ call.e = "none"
                      /\ call.ret = Num(IF call.index >= 0 THEN L[call.index + 1]
                                        ELSE L[n + call.index + 1])
                 ELSE call.e = "IndexError"

\* at(-n) returned the first element of a list of two different elements
C16_Witness ==
    /\ call.op = "at"
    /\ call.before.k = "list"
    /\ Len(call.before.l) = 2
    /\ call.before.l[1] # call.before.l[2]
    /\ call.index = -2
    /\ call.ret = Num(call.before.l[1])

\* C17: increment fails with StoredTypeError whenever the stored value is not a
\* number (null, a boolean, a string, a list, an object), toggle fails with
\* StoredTypeError whenever it is not a boolean; in both cases nothing is
\* written and the stored value is unchanged.
C17_IncAndToggleCheckTheType ==
    /\ (call.op = "dinc" /\ call.before # Absent /\ call.before.k # "num")
          => (call.e = "StoredTypeError" /\ store["cnt"] = call.before)
    /\ (call.op = "dtoggle" /\ call.before # Absent /\ call.before.k # "bool")
          => (call.e = "StoredTypeError" /\ store["cnt"] = call.before)

\* C18: contains(item) on a list-valued node returns whether item is an element
\* of the stored list, on a dict-valued node whether str(item) is a key of the
\* stored dict; each raises StoredTypeError when the stored value has another
\* shape, and neither modifies storage.
C18_ContainsReadsOnly ==
    /\ (call.op = "array_contains" /\ call.before # Absent) =>
          IF call.before.k # "list" THEN call.e = "StoredTypeError"
          ELSE /\ call.e = "none"
               /\ call.ret = Bool(\E j \in 1..Len(call.before.l) :
                                     call.arg.k = "num" /\ call.before.l[j] = call.arg.n)
    /\ (call.op = "object_contains" /\ call.before # Absent) =>
          IF call.before.k # "dict" THEN call.e = "StoredTypeError"
          ELSE /\ call.e = "none"
               /\ call.ret = Bool(PyStr(call.arg) \in DOMAIN call.before.d)
    /\ call.op \in {"array_contains", "object_contains"}
          => store[call.path] = call.before

\* contains(2) found the 2 of a stored list that does not start with it
C18_Witness ==
    /\ call.op = "array_contains"
    /\ call.before.k = "list"
    /\ Len(call.before.l) = 2
    /\ call.before.l[1] = 1
    /\ call.arg = Num(2)
    /\ call.ret = Bool(TRUE)

\* C19: custom("X", ...) raises while "X" has not been registered with
\* init_custom; once "X" is registered with arity k, a registration of "X" with
\* another arity raises, and the recorded arity stays k whatever is attempted.
C19_CustomNeedsOneRegistration ==
    [][/\ \A m \in 0..MaxArity : (custom(m) /\ custom_groups = 0) => call'.e = "ValueError"
       /\ \A n \in 1..MaxArity :
             ((init_custom(n) \/ init_custom_raises(n)) /\ custom_groups \notin {0, n})
                 => (call'.op = "init_custom" /\ call'.e = "ValueError")
       /\ custom_groups # 0 => custom_groups' = custom_groups]_vars

\* a registration with another arity has raised and the arity is the first one
C19_Witness ==
    /\ call.op = "init_custom"
    /\ call.e = "ValueError"
    /\ custom_groups # 0
    /\ call.index # custom_groups

\* C20 as stated: clear() at PathKey P removes what is stored at P and beneath
\* it, reads at P then yield the registered default, and the stored value of
\* every PathKey that is neither P nor beneath P is unchanged.
C20_ClearLeavesEveryOtherPathKey ==
    [][\A P \in PathKeys : ValueClear(P) =>
          /\ \A Q \in PathKeys : (Q = P \/ Beneath(Q, P)) => StoredAt(store', Q) = Absent
          /\ ReadAt(store', P) = DefaultAt(P)
          /\ \A Q \in PathKeys : (Q # P /\ ~Beneath(Q, P))
                => StoredAt(store', Q) = StoredAt(store, Q)]_vars

\* C20: clear() at PathKey P removes what is stored at P and beneath it, reads at
\* P then yield the registered default, and the stored value of every PathKey
\* that is neither P, nor beneath P, nor above P is unchanged; the document of a
\* PathKey above P differs by the entry of P alone.
C20_ClearLeavesUnrelatedPathKeys ==
    [][\A P \in PathKeys : ValueClear(P) =>
          /\ \A Q \in PathKeys : (Q = P \/ Beneath(Q, P)) => StoredAt(store', Q) = Absent
          /\ ReadAt(store', P) = DefaultAt(P)
          /\ \A Q \in PathKeys : (Q # P /\ ~Beneath(Q, P) /\ ~Beneath(P, Q))
                => StoredAt(store', Q) = StoredAt(store, Q)
          /\ \A Q \in PathKeys : Beneath(P, Q) =>
                LET old == StoredAt(store, Q)
                    new == StoredAt(store', Q)
                IN  IF StoredAt(store, P) = Absent THEN new = old
                    ELSE /\ new.k = "dict"
                         /\ DOMAIN new.d = DOMAIN old.d \ {P[2]}
                         /\ \A k \in DOMAIN new.d : new.d[k] = old.d[k]]_vars

\* config.grp.a was cleared while config.grp.b and config.cnt held documents,
\* and both still do
C20_Witness ==
    /\ call.op = "clear"
    /\ call.path = "grp"
    /\ call.key = "a"
    /\ call.before # Absent
    /\ store["grp"].k = "dict"
    /\ DOMAIN store["grp"].d = {"b"}
    /\ store["cnt"] # Absent

RECURSIVE TreesConflict(_, _)
TreesConflict(a, b) ==
    \/ (a.k = "dict") # (b.k = "dict")
    \/ /\ a.k = "dict"
       /\ \E k \in DOMAIN a.d \cap DOMAIN b.d : TreesConflict(a.d[k], b.d[k])

\* The two trees merged: the keys of both, the new leaf where both have one
RECURSIVE MergedTrees(_, _)
MergedTrees(a, b) ==
    IF a.k # "dict" \/ b.k # "dict" THEN b
    ELSE Dict([k \in DOMAIN a.d \cup DOMAIN b.d |->
                 IF k \notin DOMAIN b.d THEN a.d[k]
                 ELSE IF k \notin DOMAIN a.d THEN b.d[k]
                 ELSE MergedTrees(a.d[k], b.d[k])])

\* C22: registering a default under a name that has one raises the
\* schema-conflict error (KeyError) when one of the two is a dict and the other is
\* not, at the name itself or at a name nested in both; otherwise a non-dict
\* replaces a non-dict, and a dict is merged into a dict.
C22_RegisteringOverADefault ==
    (call.op = "register" /\ call.before # Absent) =>
        /\ (call.e = "KeyError") <=> TreesConflict(call.before, call.arg)
        /\ (call.before.k = "dict") # (call.arg.k = "dict") =>
               defaults[call.path] = call.before
        /\ (call.before.k # "dict" /\ call.arg.k # "dict") =>
               defaults[call.path] = call.arg
        /\ (call.e = "none" /\ call.arg.k = "dict") =>
               defaults[call.path] = MergedTrees(call.before, call.arg)

\* {"a": {"y": 2}} has been merged into {"a": {"x": 1}}
C22_Witness ==
    /\ call.op = "register" /\ call.e = "none"
    /\ call.before = Dict([k \in {"a"} |-> Dict(RegLeaf(1))])
    /\ GetIn(defaults[call.path], <<"a", "x">>) = Num(1)
    /\ GetIn(defaults[call.path], <<"a", "y">>) = Num(2)

\* C23: get() returns the stored value whenever there is one at the path, null
\* included; with nothing stored it returns the default passed, else the
\* registered default, else null; with force_registration, navigating to a
\* field that was never registered raises AttributeError.  (The values returned
\* are stated for the accessors that are Values; a Group overlays its defaults.)
C23_GetReturnsStoredThenDefaults ==
    call.op = "get" =>
        LET stored == GetIn(StoreTree(store), call.ids)
            registered == GetIn(DefaultsTree, call.ids)
        IN  /\ (registered = Absent /\ force_registration) => call.e = "AttributeError"
            /\ (call.e = "none" /\ registered.k # "dict") =>
                   call.ret = IF stored # Absent THEN stored
                              ELSE IF call.hasMax THEN OverrideDefault
                              ELSE IF registered # Absent THEN registered
                              ELSE PyNone

\* C24: get_raw(path) without a default returns what is stored at the path
\* when something is, else the registered default found along the path, and
\* raises KeyError when neither has the path, also when a registered scalar or
\* list default is reached before the path ends.  (A stored dict comes back
\* with the registered defaults beneath it; only the other values are compared.)
C24_GetRawFallsBackThenRaises ==
    call.op = "get_raw" =>
        LET stored == GetIn(StoreTree(store), call.ids)
            registered == GetIn(DefaultsTree, call.ids)
        IN  /\ (stored # Absent /\ stored.k # "dict") =>
                   (call.e = "none" /\ call.ret = stored)
            /\ (stored = Absent /\ registered # Absent) =>
                   (call.e = "none" /\ call.ret = registered)
            /\ (stored = Absent /\ registered = Absent) => call.e = "KeyError"

\* C25: after migrate_to into an empty destination backend, for every owner with
\* data on the source, every built-in or declared custom category and every
\* scope instance of it, get on the destination returns what get on the source
\* returns.
C25_MigrationCopiesEveryInstance ==
    mig.phase = "done" =>
        \A g \in Cogs : \A c \in Categories :
            (c # "X" \/ mig.custom[g] > 0) =>
                \A pk \in [1..PkeyLen(c, mig.custom[g]) -> Ids] :
                    DriverGet(dest, g, c, pk) = DriverGet(cats, g, c, pk)

\* A migration is done that copied two owners, members of two guilds and a
\* custom category
C25_Witness ==
    /\ mig.phase = "done"
    /\ mig.custom["A"] = 2
    /\ DriverGet(dest, "A", "X", <<"1", "1">>) = Doc(4)
    /\ DriverGet(dest, "A", "MEMBER", <<"2", "2">>) = Doc(3)
    /\ DriverGet(dest, "A", "MEMBER", <<"1", "2">>) = Doc(2)
    /\ DriverGet(dest, "B", "GUILD", <<"2">>) = Doc(5)

\* C26: migrate_to does not change the source backend: it only reads it, so
\* every path of the source holds after each step of the migration, completed
\* or failed part-way, what it held before.
C26_MigrationLeavesTheSource ==
    [][(MigrateStart \/ MigrateNextCog \/ MigrateExportGet \/ MigrateImportSet
        \/ MigrateFails) => cats' = cats]_vars

\* A migration failed after it had written part of the data
C26_Witness ==
    /\ mig.phase = "failed"
    /\ DriverGet(dest, "A", "GUILD", <<"1">>) = Doc(1)
    /\ DriverGet(dest, "A", "MEMBER", <<>>) = Absent
    /\ DriverGet(cats, "A", "MEMBER", <<"2", "2">>) = Doc(3)

\* C27: a locked operation started on a path key P while the locks the other
\* tasks hold or wait for are all for other path keys (another field, a field
\* beneath P, another scope instance of the same category) does not wait: it
\* has the lock at once and goes on to its driver call; and a task that does
\* wait, waits for a lock whose holder works on its own path key.
C27_NoWaitOnOtherPathKey ==
    [][/\ \A t \in Tasks : \A k \in {"dinc", "ctx"} : \A key \in LockKeys :
             (KeyStart(t, k, key) /\ \A u \in Tasks : ref[u] # NoLock => path[u] # key)
                 => pc'[t] = "get"
       /\ \A t \in Tasks : \A u \in Tasks :
             (pc'[t] = "wait" /\ locks'[ref'[t]].owner = u) => path'[u] = path'[t]]_vars

\* The increment on config.member((1, 2)).cnt has run to completion while task 1
\* holds the lock of config.member((1, 1)).cnt
C27_Witness ==
    /\ path[1] = "m1" /\ pc[1] = "set" /\ locks[ref[1]].owner = 1 /\ locks[ref[1]].locked
    /\ path[2] = "m2" /\ pc[2] = "done"
    /\ KeyGet(store, cats, "m2") = Num(1)

\* What the backend holds after the operation of task t, then the one of task
\* u, have run one after the other from the initial, empty backend
SerialOrder(t, u) ==
    LET first == RunAlone([p \in Paths |-> Absent], EmptyBackend, t)
    IN  RunAlone(first.store, first.cats, u)

\* C28: when two locked operations on different path keys have both completed,
\* the backend holds what one of the two serial orders leaves, also when one
\* path key is a field beneath the other (a scope on config.grp and an
\* increment of config.grp.a).
C28_DifferentPathKeysSerializable ==
    (/\ pc[1] = "done" /\ pc[2] = "done"
     /\ \A t \in Tasks : t > 2 => pc[t] = "idle"
     /\ path[1] # path[2])
        => \/ [store |-> store, cats |-> cats] = SerialOrder(1, 2)
           \/ [store |-> store, cats |-> cats] = SerialOrder(2, 1)

\* C29: a plain set is not serialized with the locked operations.  Whatever
\* locks are held, `await config.<p>.set(v)` can be made and completes in one
\* step that stores v and takes, waits for and releases no lock; and the
\* write-back of a scope stores the structure the scope read on entry and
\* edited, whatever was set on the path in between.
C29_PlainSetIsNotSerialized ==
    /\ \A p \in PlainPaths :
          ENABLED (/\ ValueSet(p, PlainValue(p))
                   /\ store'[p] = StoredForm(PlainValue(p))
                   /\ locks' = locks /\ ref' = ref /\ pc' = pc)
    /\ \A t \in Tasks :
          (pc[t] = "set" /\ kind[t] = "ctx")
              => ENABLED (SetReturns(t) /\ store'[path[t]] = StoredForm(loc[t]))

\* Task 1 alone opened a scope on config.lst with the lock and appended its id;
\* [9] was set on config.lst; the list the scope wrote back holds no 9: the set
\* was made between the scope's read and its write-back, while the lock was
\* held, and is overwritten.
C29_Witness ==
    /\ kind[1] = "ctx" /\ path[1] = "lst" /\ acq[1] /\ pc[1] = "done"
    /\ pc[2] = "idle"
    /\ call.op = "set" /\ call.path = "lst" /\ call.arg = List(<<9>>) /\ call.e = "none"
    /\ store["lst"] = List(<<1>>)

\* Every key of every dict in v is a str, the dicts inside dicts and the dicts
\* that are items of lists included
RECURSIVE OnlyStrKeys(_)
OnlyStrKeys(v) ==
    /\ v.k = "dict" => \A k \in DOMAIN v.d : k \notin IntKeys
    /\ v.k \in {"dict", "list"} => \A k \in DOMAIN v.d : OnlyStrKeys(v.d[k])

\* C30: the value driver.set receives from Value.set, from Group.set_raw and
\* from the write-back of a scope has str keys only, in every dict it holds, at
\* every depth, the dicts that are items of lists included.
C30_OnlyStrKeysHandedToDriver ==
    [][/\ \A p \in HandedPaths : \A v \in HandedValues(p) :
             (ValueSet(p, v) /\ call'.e = "none") => OnlyStrKeys(store'[p])
       /\ \A v \in HandedValues("grp") :
             (SetRaw(HandedRawPath, v) /\ call'.e = "none")
                 => OnlyStrKeys(GetIn(StoreTree(store'), HandedRawPath))
       /\ \A t \in Tasks : SetReturns(t) => OnlyStrKeys(store'[path[t]])]_vars

\* C31: the accessor the caller holds, however it was obtained (custom, a model
\* accessor, child navigation), has a primary key no longer than the declared
\* arity of its category.
C31_PrimaryKeyWithinArity ==
    call.op = "accessor" => Len(call.pkey) <= PkeyLen(call.cat, custom_groups)

\* The list driver.get gives set_at: the stored one, the default [] when
\* nothing is stored
SetAtExisting == IF store["lst"] = Absent THEN List(<<>>) ELSE store["lst"]

\* C32: a set_at whose index is outside -n .. n-1 for the list of length n it
\* read, or that read a value that is no list, ends with IndexError or
\* StoredTypeError: it issues no driver.set, the stored value is unchanged and
\* the lock is not held any more.  Otherwise it goes on to write a list of the
\* same length that differs from the one read at the position of index at most,
\* where it holds the value passed, and that list is what is stored.
C32_SetAtAllOrNothing ==
    [][/\ \A t \in Tasks : (GetReturns(t) /\ kind[t] = "setat") =>
             LET old == SetAtExisting
                 n == Len(old.l)
                 i == at_index[t]
             IN  IF old.k # "list" \/ i < -n \/ i > n - 1
                 THEN /\ pc'[t] = "failed"
                      /\ exc'[t] = IF old.k # "list" THEN "StoredTypeError" ELSE "IndexError"
                      /\ store' = store
                      /\ sets'[t] = sets[t]
                      /\ ~locks'[ref[t]].locked
                      /\ locks'[ref[t]].owner # t
                 ELSE LET at == IF i < 0 THEN n + i + 1 ELSE i + 1
                      IN  /\ pc'[t] = "set"
                          /\ store' = store
                          /\ loc'[t].k = "list"
                          /\ Len(loc'[t].l) = n
                          /\ loc'[t].l[at] = t
                          /\ \A j \in 1..n : j # at => loc'[t].l[j] = old.l[j]
       /\ \A t \in Tasks : (SetReturns(t) /\ kind[t] = "setat") =>
             /\ store'["lst"] = loc[t]
             /\ \A p \in Paths : p # "lst" => store'[p] = store[p]
             /\ ~locks'[ref[t]].locked]_vars

\* Task 1 assigned with a negative index, and the last element of the stored
\* list is its id; task 2 failed on an index that is out of range and holds no
\* lock
C32_Witness ==
    /\ kind[1] = "setat" /\ at_index[1] = -1 /\ pc[1] = "done"
    /\ store["lst"].k = "list" /\ Len(store["lst"].l) = MaxLen
    /\ store["lst"].l[MaxLen] = 1
    /\ kind[2] = "setat" /\ pc[2] = "failed" /\ exc[2] = "IndexError"
    /\ \A l \in LockIds : ~locks[l].locked

\* C33: a register call that raises leaves the registered defaults as they
\* were before the call.
C33_FailedRegisterChangesNothing ==
    [][\A p \in {"cnt", "grp"} : \A v \in RegValues :
          (Register(p, v) /\ call'.e # "none") => defaults' = defaults]_vars

C35_EveryLockRequestIsGranted ==
    \A t \in Tasks :
        /\ (pc[t] = "wait") ~> (pc[t] # "wait")
        /\ (pc[t] \notin {"idle"} \cup Ended) ~> (pc[t] \in Ended)

\* C36: whatever the length of the list before, the list that
\* insert(index, item, max_length=m) writes back has at most m elements.
C36_InsertKeepsTheBound ==
    (call.op = "insert" /\ call.hasMax /\ call.e = "none") =>
        Len(store["lst"].l) <= call.max_length

\* C37: after insert(index, item, max_length=m) with m >= 1 has returned, item
\* is an element of the stored list, for every index and every list before.
C37_InsertedItemIsStored ==
    (call.op = "insert" /\ call.hasMax /\ call.max_length >= 1 /\ call.e = "none") =>
        \E j \in 1..Len(store["lst"].l) : store["lst"].l[j] = call.arg.n

\* C38: when a MutationScope on a group exits with a change, the document
\* written is the whole yielded structure (its keys as strings): every key the
\* structure had on entry from the default overlay alone, and that the block left
\* alone, is stored from then on with the default value of that time, the keys
\* of a nested default included.
C38_ScopeStoresTheOverlaidDefaults ==
    [][\A t \in Tasks :
          (SetReturns(t) /\ kind[t] = "ctx" /\ path[t] = "grp") =>
              LET x == loc[t].d
                  D == GroupDefaults("grp")
                  after == store'["grp"]
              IN  /\ after.k = "dict"
                  /\ DOMAIN after.d = {StrKey(y) : y \in DOMAIN x}
                  /\ \A y \in DOMAIN x :
                        (y \notin IntKeys /\ (y = "1" => DOMAIN x \cap IntKeys = {}))
                            => after.d[y] = x[y]
                  /\ \A y \in DOMAIN D :
                        (y \in DOMAIN orig[t].d /\ y \in DOMAIN x /\ x[y] = orig[t].d[y])
                            => /\ y \in DOMAIN after.d
                               /\ IF D[y].k = "dict" /\ orig[t].d[y].k = "dict"
                                  THEN \A z \in DOMAIN D[y].d :
                                          /\ z \in DOMAIN after.d[y].d
                                          /\ after.d[y].d[z] = orig[t].d[y].d[z]
                                  ELSE after.d[y] = orig[t].d[y]
                               /\ (orig[t].d[y] = D[y] => after.d[y] = D[y])]_vars

\* a scope has written back, and the stored document holds the key "a" with its
\* registered default, which no stored document held before
C38_Witness ==
    \E t \in Tasks :
        /\ pc[t] \in Ended /\ kind[t] = "ctx" /\ path[t] = "grp" /\ sets[t] = 1
        /\ store["grp"].k = "dict"
        /\ "a" \in DOMAIN store["grp"].d
        /\ store["grp"].d["a"] = GroupDefaults("grp")["a"]

\* C39: get_raw(*path, default=d) returns the stored value unchanged whenever a
\* value is stored at the path; d counts only when nothing is stored there.
C39_DefaultOnlyWhenNothingStored ==
    call.op = "get_raw_default" =>
        IF call.before = Absent
        THEN call.e = "none" /\ call.ret = call.arg
        ELSE call.e = "none" /\ call.ret = call.before

====
